---------------------------- MODULE Spec2Model ----------------------------
(***************************************************************************)
(* The local session store, statistics, achievements and daily challenge   *)
(* of CodeKey (src/src/lib/storage.ts), with the one caller of saveSession *)
(* in the practice page (src/unnamed/part_001).                            *)
(*                                                                         *)
(* Every exported storage function is one action: each awaits its own      *)
(* database requests one after the other, and the claims checked here      *)
(* speak of calls that have returned, so a call is one step.               *)
(*                                                                         *)
(* Time is counted in hours (the code counts milliseconds); identifiers    *)
(* are small integers (the code draws random UUIDs).                       *)
(***************************************************************************)
EXTENDS Integers, Sequences, FiniteSets, TLC

VARIABLES
    sessions,      \* object store 'sessions': id -> Session
    settings,      \* object store 'settings': key -> [key, value]
    achievements,  \* object store 'achievements': id -> Achievement
    now,           \* the clock, in hours since the start of calendar day 0
    dst,           \* the daylight-saving change of the local time zone
    issued,        \* ids that uuidv4 has returned or that were ever stored
    unlockedTimes, \* key -> number of times the key was returned as newly unlocked
    everFast,      \* some saveSession call carried wpm >= 100
    seenToday,     \* the last getTodayChallenge call: its day and its result
    doneToday,     \* the date whose challenge completeDailyChallenge was given on
                   \* that date, until the setting is next replaced from outside
    completedOn,   \* the last date whose challenge completeDailyChallenge was
                   \* given on that date
    writers,       \* who wrote the dailyChallenge setting since seenToday
    last,          \* the last call: its name, arguments and return value
    errorPatterns, \* object store 'errorPatterns': id -> ErrorPattern
    db,            \* the database: its version, its object stores, and dbPromise
    lastSet,       \* key -> the value of the most recent setSetting(key, value)
    isFinished,    \* practice page: the run on screen has finished
    runStats,      \* practice page: stats, the startTime, endTime, wpm and
                   \* accuracy of the run on screen
    language,      \* practice page: the language chosen
    level,         \* practice page: the difficulty level
    snippet,       \* practice page: the characters to type, <<>> until a text is loaded
    tasks,         \* practice page: the asynchronous calls in progress
    savedRuns,     \* sessions saved for the run on screen since it finished
    userInput,     \* practice page: the characters typed, a sequence of keys
    pageSettings,  \* practice page: settings, its sound, difficulty and theme
    isLoading,     \* practice page: a fetchSnippet has begun and none has ended since
    seconds,       \* the clock: seconds past the hour of now
    lastApiCall,   \* snippets API: the instant rateLimit last let a call pass
    lastGistsCall, \* snippets API: the same for rateLimitGists
    waiting,       \* snippets API: the calls inside the setTimeout of a limiter
    started        \* snippets API: the requests begun after a limiter, with
                   \* the instant each began

\* what is typed, the settings of the page, and the clock in seconds
typingVars == <<userInput, pageSettings, isLoading, seconds>>

\* the two rate limiters of the snippets API
limitVars == <<lastApiCall, lastGistsCall, waiting, started>>

\* the state of the practice page
appVars == <<isFinished, runStats, language, level, snippet, tasks, savedRuns,
             typingVars, limitVars>>

vars == <<sessions, settings, achievements, now, dst, issued, unlockedTimes,
          everFast, seenToday, doneToday, completedOn, writers, last,
          errorPatterns, db, lastSet, appVars>>

---------------------------------------------------------------------------
(* Bounds of the model *)

\* the retention cap the model runs with (the code's cap is 1000)
MaxSessionsScaled == 2

\* the number of streak days scanned in the model (the code scans 365)
ScanDaysScaled == 3

\* the seconds the countdown of a run begins with in the model (the code's
\* countdown begins with 60)
CountdownScaled == 3

---------------------------------------------------------------------------
(* Values *)

\* JavaScript's Infinity and null, as numbers no finite field value takes
PosInfinity == 1000 * 1000
Null == 0 - 1

MAX_SESSIONS == MaxSessionsScaled

\* 24 * 60 * 60 * 1000 ms, in hours
DayHours == 24

\* 60 * 60 * 1000 ms, in seconds
HourSeconds == 3600

\* Date.now(), in seconds
DateNow == (now * HourSeconds) + seconds

\* let lastApiCall = 0: the epoch, longer before the instants of the model
\* than any delay of a limiter
LongAgo == 0 - 10

\* timeLeft: 60
TIME_LIMIT == CountdownScaled

\* the stats a run begins with
NewStats ==
    [wpm |-> 0, accuracy |-> 100, errors |-> 0, totalChars |-> 0,
     startTime |-> Null, endTime |-> Null, timeLeft |-> TIME_LIMIT]

\* the settings the page begins with
NewSettings == [sound |-> TRUE, difficulty |-> "standard", theme |-> "emerald"]

\* the text fetchSnippet shows for a language and a level, as its characters
LoadedSnippet(lang, targetLevel) ==
    IF lang = "warmup"
    THEN (IF targetLevel = "easy" THEN <<"a", "b">>
          ELSE IF targetLevel = "medium" THEN <<"b", "a">>
          ELSE <<"a", "a", "b">>)
    ELSE (IF targetLevel = "easy" THEN <<"b", "b">>
          ELSE IF targetLevel = "medium" THEN <<"a", "b", "a">>
          ELSE <<"b", "a", "b">>)

Range(f) == {f[x] : x \in DOMAIN f}

EmptyStore == [x \in {} |-> 0]

\* interface Session
Session(id, date, wpm, accuracy) ==
    [id |-> id, date |-> date, language |-> "javascript", difficulty |-> "easy",
     wpm |-> wpm, accuracy |-> accuracy, errors |-> 0, duration |-> 30,
     charactersTyped |-> 40, theme |-> "emerald"]

\* Omit<Session, 'id'>
SessionInput(date, wpm, accuracy) ==
    [date |-> date, language |-> "javascript", difficulty |-> "easy",
     wpm |-> wpm, accuracy |-> accuracy, errors |-> 0, duration |-> 30,
     charactersTyped |-> 40, theme |-> "emerald"]

\* { ...session, id: uuidv4() }
WithId(session, id) ==
    [id |-> id, date |-> session.date, language |-> session.language,
     difficulty |-> session.difficulty, wpm |-> session.wpm,
     accuracy |-> session.accuracy, errors |-> session.errors,
     duration |-> session.duration,
     charactersTyped |-> session.charactersTyped, theme |-> session.theme]

---------------------------------------------------------------------------
(* IndexedDB requests *)

\* db.put(store, value) on a store with keyPath 'id': insert or replace
Put(store, rec) ==
    [k \in DOMAIN store \cup {rec.id} |-> IF k = rec.id THEN rec ELSE store[k]]

\* db.delete(store, key)
Delete(store, key) == [k \in DOMAIN store \ {key} |-> store[k]]

\* db.count(store)
Count(store) == Cardinality(DOMAIN store)

\* order of an index on 'date': by date, equal dates by primary key
IndexBefore(a, b) == a.date < b.date \/ (a.date = b.date /\ a.id < b.id)

RECURSIVE InIndexOrder(_)
InIndexOrder(S) ==
    IF S = {} THEN <<>>
    ELSE LET first == CHOOSE x \in S : \A y \in S : x = y \/ IndexBefore(x, y)
         IN  <<first>> \o InIndexOrder(S \ {first})

\* db.getAllFromIndex(store, 'by-date')
GetAllFromIndexByDate(store) == InIndexOrder(Range(store))

\* Array.prototype.slice(0, n)
Slice0(seq, n) ==
    IF n <= 0 THEN <<>> ELSE SubSeq(seq, 1, IF n < Len(seq) THEN n ELSE Len(seq))

\* Array.prototype.reverse
Reverse(seq) == [i \in 1..Len(seq) |-> seq[Len(seq) + 1 - i]]

RECURSIVE DeleteAll(_, _)
DeleteAll(store, seq) ==
    IF seq = <<>> THEN store
    ELSE DeleteAll(Delete(store, Head(seq).id), Tail(seq))

RECURSIVE PutAll(_, _)
PutAll(store, seq) ==
    IF seq = <<>> THEN store
    ELSE PutAll(Put(store, Head(seq)), Tail(seq))

---------------------------------------------------------------------------
(* JSON *)

\* JSON.stringify of a number: NaN and the infinities are written as null
JSONNumber(x) ==
    IF x = PosInfinity \/ x = Null THEN [t |-> "null"] ELSE [t |-> "number", v |-> x]

JSONString(s) == [t |-> "string", v |-> s]

\* JSON.parse of a value
JSONValue(j) == IF j.t = "null" THEN Null ELSE j.v

JSONObject(s) ==
    [id |-> JSONString(s.id), date |-> JSONNumber(s.date),
     language |-> JSONString(s.language), difficulty |-> JSONString(s.difficulty),
     wpm |-> JSONNumber(s.wpm), accuracy |-> JSONNumber(s.accuracy),
     errors |-> JSONNumber(s.errors), duration |-> JSONNumber(s.duration),
     charactersTyped |-> JSONNumber(s.charactersTyped),
     theme |-> JSONString(s.theme)]

\* JSON.stringify(sessions, null, 2)
JSONStringify(seq) == [i \in 1..Len(seq) |-> JSONObject(seq[i])]

\* JSON.parse(jsonData)
JSONParse(json) ==
    [i \in 1..Len(json) |-> [f \in DOMAIN json[i] |-> JSONValue(json[i][f])]]

---------------------------------------------------------------------------
(* Session store *)

\* cleanupOldSessions taking the excess from the wrong end of the index
cleanupNewestSessions(store) ==
    LET count == Count(store) IN
    IF count > MAX_SESSIONS
    THEN LET allSessions == Reverse(GetAllFromIndexByDate(store))
             toDelete == Slice0(allSessions, count - MAX_SESSIONS)
         IN  DeleteAll(store, toDelete)
    ELSE store

cleanupOldSessions(store) ==
    LET count == Count(store) IN
    IF count > MAX_SESSIONS
    THEN LET allSessions == GetAllFromIndexByDate(store)
             toDelete == Slice0(allSessions, count - MAX_SESSIONS)
         IN  DeleteAll(store, toDelete)
    ELSE store

saveSession(store, session, uuid) ==
    cleanupOldSessions(Put(store, WithId(session, uuid)))

\* getSessions without the reverse: the first limit records of the index
getSessionsOldest(store, limit) ==
    Slice0(GetAllFromIndexByDate(store), limit)

getSessions(store, limit) ==
    Slice0(Reverse(GetAllFromIndexByDate(store)), limit)

\* getRecentSessions(days) called at instant t
getRecentSessions(store, t, days) ==
    LET cutoff == t - (days * DayHours)
        AtOrAfterCutoff(s) == s.date >= cutoff
    IN  Reverse(SelectSeq(GetAllFromIndexByDate(store), AtOrAfterCutoff))

clearHistory(store) == EmptyStore

exportData(store) == JSONStringify(getSessions(store, MAX_SESSIONS))

importData(store, jsonData) == PutAll(store, JSONParse(jsonData))


---------------------------------------------------------------------------
(* Clock and calendar *)

\* the last calendar day the clock of the model reaches
LastDay == 2

\* day number of an instant in UTC
UTCDay(t) == t \div DayHours

\* year, month and day of day number k: 2026-12-30, 2026-12-31, 2027-01-01, ...
CalendarDate(k) ==
    IF k <= 1 THEN <<2026, 12, 30 + k>> ELSE <<2027, 1, k - 1>>

\* a number written with n decimal digits, zero padded
RECURSIVE Digits(_, _)
Digits(x, n) == IF n = 0 THEN <<>> ELSE Append(Digits(x \div 10, n - 1), x % 10)

\* the digits of ds from the i-th on read in a radix, up to the first digit
\* the radix does not have
RECURSIVE ParseFrom(_, _, _, _)
ParseFrom(ds, i, radix, acc) ==
    IF i > Len(ds) \/ ds[i] >= radix THEN acc
    ELSE ParseFrom(ds, i + 1, radix, acc * radix + ds[i])

\* parseInt reading a string with a leading zero as octal
parseIntOctal(ds) ==
    IF Len(ds) > 1 /\ ds[1] = 0 THEN ParseFrom(ds, 2, 8, 0)
    ELSE ParseFrom(ds, 1, 10, 0)

\* parseInt of a string of decimal digits
RECURSIVE parseInt(_)
parseInt(ds) ==
    IF ds = <<>> THEN 0
    ELSE 10 * parseInt(SubSeq(ds, 1, Len(ds) - 1)) + ds[Len(ds)]

\* toISOString() cut after the hour instead of before the 'T'
ISODateHour(t) ==
    LET ymd == CalendarDate(UTCDay(t))
    IN  <<Digits(ymd[1], 4), Digits(ymd[2], 2), Digits(ymd[3], 2),
          Digits(t % DayHours, 2)>>

\* new Date().toISOString().split('T')[0]: "yyyy-mm-dd", kept as its three
\* '-'-separated parts
ISODate(t) ==
    LET ymd == CalendarDate(UTCDay(t))
    IN  <<Digits(ymd[1], 4), Digits(ymd[2], 2), Digits(ymd[3], 2)>>

\* start of local calendar day k: setHours(0, 0, 0, 0) and setDate(getDate() - i).
\* The zone changes its offset once, at the end of day dst.day: "fall" makes
\* that day 25 hours long, "spring" 23 hours.
LocalMidnight(k) ==
    DayHours * k +
    (IF k > dst.day
     THEN (IF dst.kind = "fall" THEN 1 ELSE IF dst.kind = "spring" THEN 0 - 1 ELSE 0)
     ELSE 0)

\* the local calendar day an instant falls on
LocalDayOf(t) ==
    CHOOSE k \in (0 - LastDay - 4)..(LastDay + 4) :
        LocalMidnight(k) <= t /\ t < LocalMidnight(k + 1)

\* new Date().getHours()
GetHours(t) ==
    LET h == t - LocalMidnight(LocalDayOf(t)) IN IF h >= DayHours THEN DayHours - 1 ELSE h

---------------------------------------------------------------------------
(* Settings and the daily challenge *)

\* db.put('settings', { key, value }) on a store with keyPath 'key'
PutSetting(store, rec) ==
    [k \in DOMAIN store \cup {rec.key} |-> IF k = rec.key THEN rec ELSE store[k]]

\* a setting value: typeof value is "object", "string", "number" or "boolean"
ObjectValue(o) == [t |-> "object", o |-> o]
StringValue(v) == [t |-> "string", v |-> v]

BooleanValue(b) == [t |-> "boolean", v |-> b]

setSetting(store, key, value) == PutSetting(store, [key |-> key, value |-> value])

\* getSetting falling back to the default on a stored value that is falsy
getSettingOrDefault(store, key, defaultValue) ==
    IF /\ key \in DOMAIN store
       /\ store[key].value # BooleanValue(FALSE)
       /\ store[key].value # StringValue("")
    THEN store[key].value
    ELSE defaultValue

\* getSetting(key, defaultValue): setting ? setting.value : defaultValue
getSetting(store, key, defaultValue) ==
    IF key \in DOMAIN store THEN store[key].value ELSE defaultValue

SumParts(parts) == parseInt(parts[1]) + parseInt(parts[2]) + parseInt(parts[3])

\* getDailyChallenge() at instant t
getDailyChallenge(t) ==
    LET today == ISODate(t)
        seed == SumParts(today)
        random == (seed * 9301 + 49297) % 233280
        languages == <<"javascript", "python", "typescript", "rust">>
        challenges ==
            << [date |-> today, type |-> "speed", target |-> 60 + (random % 40),
                completed |-> FALSE],
               [date |-> today, type |-> "accuracy", target |-> 95 + (random % 5),
                completed |-> FALSE],
               [date |-> today, type |-> "language", target |-> 1,
                language |-> languages[(random % 4) + 1], completed |-> FALSE] >>
    IN  challenges[(random % Len(challenges)) + 1]

\* the spread without the completed flag set
NotCompleted(challenge) == challenge

\* { ...challenge, completed: true }
Completed(challenge) == [challenge EXCEPT !.completed = TRUE]

\* the test of getTodayChallenge: a saved object dated today
SavedForToday(store, t) ==
    /\ "dailyChallenge" \in DOMAIN store
    /\ store["dailyChallenge"].value.t = "object"
    /\ store["dailyChallenge"].value.o.date = ISODate(t)

\* getTodayChallenge() called at instant t; getDailyChallenge reads the
\* clock again, at t2, after the awaited db.get
getTodayChallenge(store, t, t2) ==
    IF SavedForToday(store, t)
    THEN [store |-> store, ret |-> store["dailyChallenge"].value.o]
    ELSE LET newChallenge == getDailyChallenge(t2)
         IN  [store |-> PutSetting(store, [key |-> "dailyChallenge",
                                           value |-> ObjectValue(newChallenge)]),
              ret |-> newChallenge]

completeDailyChallenge(store, challenge) ==
    LET completed == Completed(challenge)
    IN  [store |-> PutSetting(store, [key |-> "dailyChallenge",
                                      value |-> ObjectValue(completed)]),
         ret |-> completed]

---------------------------------------------------------------------------
(* Achievements *)

NullRet == [t |-> "null"]

\* the keys of ACHIEVEMENTS
AchievementKeys ==
    {"first_session", "speed_demon", "perfectionist", "week_streak",
     "month_streak", "polyglot", "marathon", "early_bird", "night_owl",
     "hardcore_master"}

\* unlockAchievement without the test for an existing record
unlockAchievementAgain(store, key, t) ==
    LET achievement == [id |-> key, key |-> key, unlockedAt |-> t]
    IN  [store |-> Put(store, achievement), ret |-> achievement]

unlockAchievement(store, key, t) ==
    IF key \in DOMAIN store
    THEN [store |-> store, ret |-> NullRet]
    ELSE LET achievement == [id |-> key, key |-> key, unlockedAt |-> t]
         IN  [store |-> Put(store, achievement), ret |-> achievement]

\* the rules with week_streak for streaks of 7 up to 29 days only
RulesWeekBelowMonth(session, stats, hour) ==
    << [key |-> "first_session", holds |-> stats.totalSessions = 1],
       [key |-> "speed_demon", holds |-> session.wpm >= 100],
       [key |-> "perfectionist", holds |-> session.accuracy = 100],
       [key |-> "week_streak",
        holds |-> stats.currentStreak >= 7 /\ stats.currentStreak < 30],
       [key |-> "month_streak", holds |-> stats.currentStreak >= 30],
       [key |-> "marathon", holds |-> stats.totalSessions >= 100],
       [key |-> "early_bird", holds |-> hour < 8],
       [key |-> "night_owl", holds |-> hour >= 22] >>

\* the rules with night_owl from the hour after 22 on
RulesAfterTen(session, stats, hour) ==
    << [key |-> "first_session", holds |-> stats.totalSessions = 1],
       [key |-> "speed_demon", holds |-> session.wpm >= 100],
       [key |-> "perfectionist", holds |-> session.accuracy = 100],
       [key |-> "week_streak", holds |-> stats.currentStreak >= 7],
       [key |-> "month_streak", holds |-> stats.currentStreak >= 30],
       [key |-> "marathon", holds |-> stats.totalSessions >= 100],
       [key |-> "early_bird", holds |-> hour < 8],
       [key |-> "night_owl", holds |-> hour > 22] >>

\* the rules of checkAndUnlockAchievements, in the order the code tries them
Rules(session, stats, hour) ==
    << [key |-> "first_session", holds |-> stats.totalSessions = 1],
       [key |-> "speed_demon", holds |-> session.wpm >= 100],
       [key |-> "perfectionist", holds |-> session.accuracy = 100],
       [key |-> "week_streak", holds |-> stats.currentStreak >= 7],
       [key |-> "month_streak", holds |-> stats.currentStreak >= 30],
       [key |-> "marathon", holds |-> stats.totalSessions >= 100],
       [key |-> "early_bird", holds |-> hour < 8],
       [key |-> "night_owl", holds |-> hour >= 22] >>

RECURSIVE ApplyRules(_, _, _, _)
ApplyRules(rules, store, unlocked, t) ==
    IF rules = <<>> THEN [store |-> store, ret |-> unlocked]
    ELSE IF Head(rules).holds
         THEN LET r == unlockAchievement(store, Head(rules).key, t)
              IN  ApplyRules(Tail(rules), r.store,
                             IF r.ret # NullRet THEN Append(unlocked, r.ret)
                             ELSE unlocked, t)
         ELSE ApplyRules(Tail(rules), store, unlocked, t)

checkAndUnlockAchievements(store, session, stats, t) ==
    ApplyRules(Rules(session, stats, GetHours(t)), store, <<>>, t)

---------------------------------------------------------------------------
(* Statistics *)

STREAK_DAYS == ScanDaysScaled

\* a number field read in arithmetic: null counts as 0
ToNumber(x) == IF x = Null THEN 0 ELSE x

JSAdd(a, b) ==
    IF a = PosInfinity \/ b = PosInfinity THEN PosInfinity
    ELSE ToNumber(a) + ToNumber(b)

JSMax(a, b) == IF ToNumber(a) >= ToNumber(b) THEN ToNumber(a) ELSE ToNumber(b)

RECURSIVE SumField(_, _)
SumField(S, f) ==
    IF S = {} THEN 0
    ELSE LET x == CHOOSE x \in S : TRUE IN JSAdd(x[f], SumField(S \ {x}, f))

RECURSIVE MaxField(_, _)
MaxField(S, f) ==
    LET x == CHOOSE x \in S : TRUE
    IN  IF S = {x} THEN ToNumber(x[f]) ELSE JSMax(x[f], MaxField(S \ {x}, f))

\* the quotient cut off instead of rounded
MathFloorDiv(sum, n) ==
    IF sum = PosInfinity THEN PosInfinity ELSE sum \div n

\* Math.round(sum / n), for sum >= 0 and n > 0
MathRoundDiv(sum, n) ==
    IF sum = PosInfinity THEN PosInfinity ELSE (2 * sum + n) \div (2 * n)

\* sortedByDate.some(s => s.date >= dayStart && s.date < dayEnd) for day i
HasSession(store, t, i) ==
    LET dayStart == LocalMidnight(LocalDayOf(t) - i)
        dayEnd == dayStart + DayHours
    IN  \E s \in Range(store) : s.date >= dayStart /\ s.date < dayEnd

\* the loop passing over every day without a session
RECURSIVE StreakLoopSkipping(_, _, _, _)
StreakLoopSkipping(store, t, i, streak) ==
    IF i >= STREAK_DAYS THEN streak
    ELSE IF HasSession(store, t, i)
    THEN StreakLoopSkipping(store, t, i + 1, streak + 1)
    ELSE StreakLoopSkipping(store, t, i + 1, streak)

\* the loop ending the count at every day without a session, day 0 included
RECURSIVE StreakLoopStrict(_, _, _, _)
StreakLoopStrict(store, t, i, streak) ==
    IF i >= STREAK_DAYS THEN streak
    ELSE IF HasSession(store, t, i) THEN StreakLoopStrict(store, t, i + 1, streak + 1)
    ELSE streak

\* the for loop of getStats, from day i on, with streak counted so far
RECURSIVE StreakLoop(_, _, _, _)
StreakLoop(store, t, i, streak) ==
    IF i >= STREAK_DAYS THEN streak
    ELSE IF HasSession(store, t, i) THEN StreakLoop(store, t, i + 1, streak + 1)
    ELSE IF i > 0 THEN streak
    ELSE StreakLoop(store, t, i + 1, streak)

getStats(store, t) ==
    LET all == Range(store) IN
    IF Count(store) = 0
    THEN [totalSessions |-> 0, bestWpm |-> 0, averageWpm |-> 0,
          averageAccuracy |-> 0, totalTime |-> 0, currentStreak |-> 0]
    ELSE [totalSessions |-> Count(store),
          bestWpm |-> MaxField(all, "wpm"),
          averageWpm |-> MathRoundDiv(SumField(all, "wpm"), Count(store)),
          averageAccuracy |-> MathRoundDiv(SumField(all, "accuracy"), Count(store)),
          totalTime |-> SumField(all, "duration"),
          currentStreak |-> StreakLoop(store, t, 0, 0)]

---------------------------------------------------------------------------
(* Error patterns *)

\* the cap on stored error patterns the model runs with (the code's cap is 500)
MaxPatternsScaled == 2

MAX_PATTERNS == MaxPatternsScaled

\* interface ErrorPattern
ErrorPattern(id, date, expected, typed, position) ==
    [id |-> id, date |-> date, expected |-> expected, typed |-> typed,
     position |-> position]

\* saveErrorPattern taking the excess from the wrong end of the index
saveErrorPatternNewest(store, pattern) ==
    LET stored == Put(store, pattern)
        count == Count(stored)
    IN  IF count > MAX_PATTERNS
        THEN LET allPatterns == Reverse(GetAllFromIndexByDate(stored))
                 toDelete == Slice0(allPatterns, count - MAX_PATTERNS)
             IN  DeleteAll(stored, toDelete)
        ELSE stored

\* saveErrorPattern(expected, typed, position), pattern built from its
\* arguments, uuidv4() and Date.now()
saveErrorPattern(store, pattern) ==
    LET stored == Put(store, pattern)
        count == Count(stored)
    IN  IF count > MAX_PATTERNS
        THEN LET allPatterns == GetAllFromIndexByDate(stored)
                 toDelete == Slice0(allPatterns, count - MAX_PATTERNS)
             IN  DeleteAll(stored, toDelete)
        ELSE stored

---------------------------------------------------------------------------
(* The database and its schema versions *)

DB_VERSION == 2

\* no database of this name yet: version 0, no object stores, not opened
NoDatabase ==
    [version |-> 0, oldVersion |-> 0, objectStoreNames |-> <<>>,
     dbPromise |-> FALSE]

\* db.createObjectStore(name, ...)
createObjectStore(names, name) == Append(names, name)

\* the upgrade callback creating every store whatever the old version
upgradeAll(names, oldVersion) ==
    createObjectStore(createObjectStore(createObjectStore(createObjectStore(
        names, "sessions"), "settings"), "errorPatterns"), "achievements")

\* upgrade(db, oldVersion): the object stores after the callback
upgrade(names, oldVersion) ==
    LET v1 == IF oldVersion < 1
              THEN createObjectStore(createObjectStore(names, "sessions"),
                                     "settings")
              ELSE names
    IN  IF oldVersion < 2
        THEN createObjectStore(createObjectStore(v1, "errorPatterns"),
                               "achievements")
        ELSE v1

\* getDB(): openDB(DB_NAME, DB_VERSION, { upgrade }) unless dbPromise is set
getDB(d) ==
    IF d.dbPromise THEN d
    ELSE [version |-> DB_VERSION,
          oldVersion |-> d.version,
          objectStoreNames |-> upgrade(d.objectStoreNames, d.version),
          dbPromise |-> TRUE]

\* a stored setting value as the page takes it
Untagged(value) == IF value.t = "object" THEN value.o ELSE value.v

\* loadSettings: the three settings read from the store, each with its default
loadSettings(store) ==
    [sound |-> Untagged(getSetting(store, "sound", BooleanValue(TRUE))),
     difficulty |-> Untagged(getSetting(store, "difficulty", StringValue("standard"))),
     theme |-> Untagged(getSetting(store, "theme", StringValue("emerald")))]

\* the page is loaded anew: the module starts with dbPromise = null and the
\* page with its initial state, the warmup snippet of the first fetchSnippet
\* on screen; the database stays as it is
Reload ==
    /\ db' = [db EXCEPT !.dbPromise = FALSE]
    /\ isFinished' = FALSE
    /\ runStats' = NewStats
    /\ language' = "warmup"
    /\ level' = "easy"
    /\ snippet' = LoadedSnippet("warmup", "easy")
    /\ tasks' = <<>>
    /\ savedRuns' = 0
    /\ userInput' = <<>>
    /\ pageSettings' = loadSettings(settings)
    /\ isLoading' = FALSE
    /\ lastApiCall' = LongAgo
    /\ lastGistsCall' = LongAgo
    /\ waiting' = <<>>
    /\ UNCHANGED <<seconds, started>>
    /\ last' = [op |-> "reload"]
    /\ UNCHANGED <<sessions, settings, achievements, now, dst, issued,
                   unlockedTimes, everFast, seenToday, doneToday, completedOn,
                   writers, errorPatterns, lastSet>>

---------------------------------------------------------------------------
(* Calls of the session store *)

\* identifiers: what uuidv4 may return, and what an imported file may carry
Ids == {1, 2, 3, 4}

NoCall == [op |-> "none"]

\* saveSession(session), session.date supplied by the caller; uuidv4 draws
\* an id never seen before
SaveSession(session, uuids) ==
    \E uuid \in uuids \ issued :
        LET stored == Put(sessions, WithId(session, uuid)) IN
        /\ sessions' = saveSession(sessions, session, uuid)
        /\ issued' = issued \cup {uuid}
        /\ everFast' = (everFast \/ session.wpm >= 100)
        /\ last' = [op |-> "saveSession", ret |-> WithId(session, uuid),
                    count |-> Count(stored),
                    deleted |-> Range(stored) \ Range(sessions')]
        /\ UNCHANGED <<settings, achievements, now, dst, unlockedTimes,
                       seenToday, doneToday, completedOn, writers>>
        /\ db' = getDB(db)
        /\ UNCHANGED <<errorPatterns, lastSet, appVars>>

\* importData(jsonData)
ImportData(jsonData) ==
    /\ sessions' = importData(sessions, jsonData)
    /\ issued' = issued \cup {JSONParse(jsonData)[i].id : i \in 1..Len(jsonData)}
    /\ last' = [op |-> "importData", ret |-> Len(JSONParse(jsonData))]
    /\ UNCHANGED <<settings, achievements, now, dst, unlockedTimes, everFast,
                   seenToday, doneToday, completedOn, writers>>
    /\ db' = getDB(db)
    /\ UNCHANGED <<errorPatterns, lastSet, appVars>>

\* getSessions(limit)
GetSessions(limit) ==
    /\ last' = [op |-> "getSessions", limit |-> limit,
                ret |-> getSessions(sessions, limit)]
    /\ db' = getDB(db)
    /\ UNCHANGED <<sessions, settings, achievements, now, dst, issued,
                   unlockedTimes, everFast, seenToday, doneToday, completedOn,
                   writers, errorPatterns, lastSet, appVars>>

\* getRecentSessions(days)
GetRecentSessions(days) ==
    /\ last' = [op |-> "getRecentSessions", days |-> days,
                ret |-> getRecentSessions(sessions, now, days)]
    /\ db' = getDB(db)
    /\ UNCHANGED <<sessions, settings, achievements, now, dst, issued,
                   unlockedTimes, everFast, seenToday, doneToday, completedOn,
                   writers, errorPatterns, lastSet, appVars>>

\* clearHistory clearing the achievements along with the sessions
ClearEverything ==
    /\ sessions' = clearHistory(sessions)
    /\ achievements' = EmptyStore
    /\ last' = [op |-> "clearHistory"]
    /\ UNCHANGED <<settings, now, dst, issued, unlockedTimes,
                   everFast, seenToday, doneToday, completedOn, writers>>
    /\ db' = getDB(db)
    /\ UNCHANGED <<errorPatterns, lastSet, appVars>>

\* clearHistory()
ClearHistory ==
    /\ sessions' = clearHistory(sessions)
    /\ last' = [op |-> "clearHistory"]
    /\ UNCHANGED <<settings, achievements, now, dst, issued, unlockedTimes,
                   everFast, seenToday, doneToday, completedOn, writers>>
    /\ db' = getDB(db)
    /\ UNCHANGED <<errorPatterns, lastSet, appVars>>

\* importData(await exportData()), after clearHistory() when emptied
ExportThenImport(emptied) ==
    LET json == exportData(sessions)
        base == IF emptied THEN clearHistory(sessions) ELSE sessions
    IN  /\ sessions' = importData(base, json)
        /\ last' = [op |-> "exportThenImport", emptied |-> emptied,
                    before |-> sessions, ret |-> Len(JSONParse(json))]
        /\ UNCHANGED <<settings, achievements, now, dst, issued, unlockedTimes,
                       everFast, seenToday, doneToday, completedOn, writers>>
        /\ db' = getDB(db)
        /\ UNCHANGED <<errorPatterns, lastSet, appVars>>

\* saveErrorPattern(expected, typed, position)
SaveErrorPattern(expected, typed, position, uuids) ==
    \E uuid \in uuids \ issued :
        LET pattern == ErrorPattern(uuid, now, expected, typed, position)
            stored == Put(errorPatterns, pattern)
        IN  /\ errorPatterns' = saveErrorPattern(errorPatterns, pattern)
            /\ issued' = issued \cup {uuid}
            /\ db' = getDB(db)
            /\ last' = [op |-> "saveErrorPattern", ret |-> pattern,
                        count |-> Count(stored),
                        deleted |-> Range(stored) \ Range(errorPatterns')]
            /\ UNCHANGED <<sessions, settings, achievements, now, dst,
                           unlockedTimes, everFast, seenToday, doneToday,
                           completedOn, writers, lastSet, appVars>>

---------------------------------------------------------------------------
(* Calls of the settings, the daily challenge, the achievements, the        *)
(* statistics; the clock                                                    *)

\* time passes: the clock reaches instant t
Tick(t) ==
    /\ t > now
    /\ t < (LastDay + 1) * DayHours
    /\ now' = t
    /\ last' = [op |-> "tick"]
    /\ UNCHANGED <<sessions, settings, achievements, dst, issued, unlockedTimes,
                   everFast, seenToday, doneToday, completedOn, writers>>
    /\ UNCHANGED <<db, errorPatterns, lastSet, appVars>>

\* setSetting(key, value)
SetSetting(key, value) ==
    /\ settings' = setSetting(settings, key, value)
    /\ writers' = IF key = "dailyChallenge" THEN writers \cup {"setSetting"}
                  ELSE writers
    /\ doneToday' = IF key = "dailyChallenge" THEN <<>> ELSE doneToday
    /\ last' = [op |-> "setSetting", key |-> key, value |-> value]
    /\ UNCHANGED <<sessions, achievements, now, dst, issued, unlockedTimes,
                   everFast, seenToday, completedOn>>
    /\ db' = getDB(db)
    /\ lastSet' = [k \in DOMAIN lastSet \cup {key} |->
                      IF k = key THEN value ELSE lastSet[k]]
    /\ UNCHANGED <<errorPatterns, appVars>>

\* getSetting(key, defaultValue)
GetSetting(key, defaultValue) ==
    /\ last' = [op |-> "getSetting", key |-> key, defaultValue |-> defaultValue,
                ret |-> getSetting(settings, key, defaultValue)]
    /\ db' = getDB(db)
    /\ UNCHANGED <<sessions, settings, achievements, now, dst, issued,
                   unlockedTimes, everFast, seenToday, doneToday, completedOn,
                   writers, errorPatterns, lastSet, appVars>>

\* getTodayChallenge(); when nothing saved is dated today the clock is read a
\* second time, and midnight may have passed since the first reading
GetTodayChallenge(midnightPasses) ==
    LET t2 == IF midnightPasses THEN (UTCDay(now) + 1) * DayHours ELSE now
        r == getTodayChallenge(settings, now, t2)
    IN  /\ midnightPasses =>
              ~SavedForToday(settings, now) /\ UTCDay(now) < LastDay
        /\ settings' = r.store
        /\ now' = t2
        /\ seenToday' = [op |-> "getTodayChallenge", day |-> UTCDay(now),
                         ret |-> r.ret]
        /\ writers' = {}
        /\ doneToday' = IF SavedForToday(settings, now) THEN doneToday ELSE <<>>
        /\ last' = [op |-> "getTodayChallenge", day |-> UTCDay(now),
                    ret |-> r.ret, generated |-> ~SavedForToday(settings, now),
                    repeated |-> (/\ seenToday.op = "getTodayChallenge"
                                  /\ seenToday.day = UTCDay(now)
                                  /\ writers = {})]
        /\ UNCHANGED <<sessions, achievements, dst, issued, unlockedTimes,
                       everFast, completedOn>>
        /\ db' = getDB(db)
        /\ UNCHANGED <<errorPatterns, lastSet, appVars>>

\* getDailyChallenge()
GetDailyChallenge ==
    /\ last' = [op |-> "getDailyChallenge", ret |-> getDailyChallenge(now),
                repeated |-> (/\ seenToday.op = "getDailyChallenge"
                              /\ seenToday.day = UTCDay(now)
                              /\ seenToday.hour # now % DayHours)]
    /\ seenToday' = [op |-> "getDailyChallenge", day |-> UTCDay(now),
                     hour |-> now % DayHours, ret |-> getDailyChallenge(now)]
    /\ UNCHANGED <<sessions, settings, achievements, now, dst, issued,
                   unlockedTimes, everFast, doneToday, completedOn, writers,
                   errorPatterns, db, lastSet, appVars>>

\* completeDailyChallenge(challenge)
CompleteDailyChallenge(challenge) ==
    LET r == completeDailyChallenge(settings, challenge)
        ofToday == challenge.date = ISODate(now)
    IN  /\ settings' = r.store
        /\ writers' = writers \cup
                         {IF ofToday THEN "completeToday" ELSE "completeOther"}
        /\ doneToday' = IF ofToday THEN challenge.date ELSE <<>>
        /\ completedOn' = IF ofToday THEN challenge.date ELSE completedOn
        /\ last' = [op |-> "completeDailyChallenge", ret |-> r.ret]
        /\ UNCHANGED <<sessions, achievements, now, dst, issued, unlockedTimes,
                       everFast, seenToday>>
        /\ db' = getDB(db)
        /\ UNCHANGED <<errorPatterns, lastSet, appVars>>

\* one more return of key as newly unlocked (counted up to 2)
Counted(times, keys) ==
    [k \in DOMAIN times |->
        IF k \in keys /\ times[k] < 2 THEN times[k] + 1 ELSE times[k]]

\* unlockAchievement(key)
UnlockAchievement(key) ==
    LET r == unlockAchievement(achievements, key, now)
    IN  /\ achievements' = r.store
        /\ unlockedTimes' =
               Counted(unlockedTimes, IF r.ret = NullRet THEN {} ELSE {key})
        /\ last' = [op |-> "unlockAchievement", key |-> key, ret |-> r.ret]
        /\ UNCHANGED <<sessions, settings, now, dst, issued, everFast,
                       seenToday, doneToday, completedOn, writers>>
        /\ db' = getDB(db)
        /\ UNCHANGED <<errorPatterns, lastSet, appVars>>

\* checkAndUnlockAchievements(session, stats)
CheckAndUnlockAchievements(session, stats) ==
    LET r == checkAndUnlockAchievements(achievements, session, stats, now)
    IN  /\ achievements' = r.store
        /\ unlockedTimes' =
               Counted(unlockedTimes, {r.ret[i].key : i \in 1..Len(r.ret)})
        /\ last' = [op |-> "checkAndUnlockAchievements", session |-> session,
                    stats |-> stats, hour |-> GetHours(now), ret |-> r.ret]
        /\ UNCHANGED <<sessions, settings, now, dst, issued, everFast,
                       seenToday, doneToday, completedOn, writers>>
        /\ db' = IF \E i \in 1..Len(Rules(session, stats, GetHours(now))) :
                   Rules(session, stats, GetHours(now))[i].holds
              THEN getDB(db) ELSE db
        /\ UNCHANGED <<errorPatterns, lastSet, appVars>>

\* getStats()
GetStats ==
    /\ last' = [op |-> "getStats", ret |-> getStats(sessions, now)]
    /\ UNCHANGED <<sessions, settings, achievements, now, dst, issued,
                   unlockedTimes, everFast, seenToday, doneToday, completedOn, writers>>
    /\ db' = getDB(db)
    /\ UNCHANGED <<errorPatterns, lastSet, appVars>>

\* saveSessionToHistory() of the practice page, for a run whose statistics
\* are wpm and accuracy: the session is dated Date.now()
SaveSessionToHistory(wpm, accuracy, uuids) ==
    SaveSession(SessionInput(now, wpm, accuracy), uuids)

---------------------------------------------------------------------------
(* Snippets: the bundled ones and the ones fetched from GitHub *)

\* a text as its lines: each line its length and whether an import,
\* require, #include or using-namespace line, which cleanCodeSnippet blanks
Line(n, blanked) == [n |-> n, blanked |-> blanked]

RECURSIVE SumLengths(_)
SumLengths(lines) ==
    IF lines = <<>> THEN 0 ELSE Head(lines).n + SumLengths(Tail(lines))

\* the characters of lines joined by '\n'
TextLength(lines) ==
    IF lines = <<>> THEN 0 ELSE SumLengths(lines) + Len(lines) - 1

\* String.prototype.trim on lines: the empty lines at both ends go
RECURSIVE Trim(_)
Trim(lines) ==
    IF lines = <<>> THEN <<>>
    ELSE IF Head(lines).n = 0 THEN Trim(Tail(lines))
    ELSE IF lines[Len(lines)].n = 0 THEN Trim(SubSeq(lines, 1, Len(lines) - 1))
    ELSE lines

\* cleanCodeSnippet(code): the text left and its length
cleanCodeSnippet(code) ==
    LET replaced == [i \in 1..Len(code) |->
                        IF code[i].blanked THEN Line(0, FALSE) ELSE code[i]]
        trimmed == Trim(replaced)
        NotEmpty(l) == l.n > 0
        lines == SelectSeq(trimmed, NotEmpty)
        cleaned == IF Len(lines) > 10 THEN SubSeq(lines, 1, 10) ELSE trimmed
    IN  [lines |-> cleaned,
         length |-> IF TextLength(cleaned) > 200 THEN 200 ELSE TextLength(cleaned)]

\* what the two requests of fetchFromGitHub meet: the search may throw,
\* answer not OK, answer without items, or answer with items; the file
\* request may throw, answer not OK, or answer with the file's text
RemoteAnswer(search, file, content) ==
    [search |-> search, file |-> file, content |-> content]

\* fetchFromGitHub(language): the snippet or null, and the requests made
fetchFromGitHub(remote) ==
    IF remote.search \in {"throws", "notOk", "empty"}
    THEN [ret |-> NullRet, requests |-> 1]
    ELSE IF remote.file \in {"throws", "notOk"}
    THEN [ret |-> NullRet, requests |-> 2]
    ELSE [ret |-> cleanCodeSnippet(remote.content), requests |-> 2]

\* the generated warmup text of getRandomCharSet
WarmupText == "asdf jkl;"

\* LEVELED_SNIPPETS.javascript?.[difficulty]?.[0] || 'console.log("Hello");'
Fallback(bundled, difficulty) ==
    IF "javascript" \in DOMAIN bundled /\ bundled["javascript"][difficulty] # <<>>
    THEN bundled["javascript"][difficulty][1]
    ELSE "console.log(\"Hello\");"

\* getSnippet returning whatever GitHub gave that is not empty
getSnippetAnyLength(lang, difficulty, useApi, bundled, pick, remote) ==
    IF lang = "warmup"
    THEN [code |-> WarmupText, source |-> "generated", language |-> "warmup",
          requests |-> 0]
    ELSE IF lang = "custom"
    THEN [code |-> "", source |-> "local", language |-> "custom", requests |-> 0]
    ELSE IF lang \notin DOMAIN bundled \/ bundled[lang][difficulty] = <<>>
    THEN [code |-> Fallback(bundled, difficulty), source |-> "local",
          language |-> "javascript", requests |-> 0]
    ELSE LET localSnippet == bundled[lang][difficulty][pick]
             github == fetchFromGitHub(remote)
         IN  IF ~useApi
             THEN [code |-> localSnippet, source |-> "local",
                   language |-> lang, requests |-> 0]
             ELSE IF github.ret # NullRet /\ github.ret.length > 0
             THEN [code |-> github.ret, source |-> "github",
                   language |-> lang, requests |-> github.requests]
             ELSE [code |-> localSnippet, source |-> "local",
                   language |-> lang, requests |-> github.requests]

\* getSnippet(language, difficulty, useApi) over the bundled snippets, with
\* pick the index Math.random chooses among the language's local snippets
\* and remote what GitHub answers
getSnippet(lang, difficulty, useApi, bundled, pick, remote) ==
    IF lang = "warmup"
    THEN [code |-> WarmupText, source |-> "generated", language |-> "warmup",
          requests |-> 0]
    ELSE IF lang = "custom"
    THEN [code |-> "", source |-> "local", language |-> "custom", requests |-> 0]
    ELSE IF lang \notin DOMAIN bundled \/ bundled[lang][difficulty] = <<>>
    THEN [code |-> Fallback(bundled, difficulty), source |-> "local",
          language |-> "javascript", requests |-> 0]
    ELSE LET localSnippet == bundled[lang][difficulty][pick]
             github == fetchFromGitHub(remote)
         IN  IF ~useApi
             THEN [code |-> localSnippet, source |-> "local",
                   language |-> lang, requests |-> 0]
             ELSE IF github.ret # NullRet /\ github.ret.length > 10
             THEN [code |-> github.ret, source |-> "github",
                   language |-> lang, requests |-> github.requests]
             ELSE [code |-> localSnippet, source |-> "local",
                   language |-> lang, requests |-> github.requests]

\* getSnippet(language, difficulty, useApi); for language 'random' the call
\* is made again with the language Math.random chooses
GetSnippet(lang, difficulty, useApi, randomLang, bundled, pick, remote) ==
    LET chosen == IF lang = "random" THEN randomLang ELSE lang
    IN  /\ pick \in 1..(IF chosen \in DOMAIN bundled /\ bundled[chosen][difficulty] # <<>>
                        THEN Len(bundled[chosen][difficulty]) ELSE 1)
        /\ last' = [op |-> "getSnippet", language |-> lang, chosen |-> chosen,
                    difficulty |-> difficulty, useApi |-> useApi,
                    bundled |-> bundled, remote |-> remote,
                    ret |-> getSnippet(chosen, difficulty, useApi, bundled,
                                       pick, remote)]
        /\ UNCHANGED <<sessions, settings, achievements, now, dst, issued,
                       unlockedTimes, everFast, seenToday, doneToday,
                       completedOn, writers, errorPatterns, db, lastSet, appVars>>

\* LANGUAGE_EXTENSIONS[key], "undefined" when the table has no such key; a
\* key is given as the sequence of its parts, <<"js">> or <<".", "js">>
LANGUAGE_EXTENSIONS(key) ==
    IF key \in {<<"js">>, <<"jsx">>} THEN "javascript"
    ELSE IF key \in {<<"ts">>, <<"tsx">>} THEN "typescript"
    ELSE IF key = <<"py">> THEN "python"
    ELSE IF key = <<"rs">> THEN "rust"
    ELSE IF key = <<"go">> THEN "go"
    ELSE IF key \in {<<"cpp">>, <<"cc">>, <<"cxx">>, <<"hpp">>} THEN "cpp"
    ELSE IF key \in {<<"h">>, <<"c">>} THEN "c"
    ELSE "undefined"

\* a file of a gist: what follows the last '.' of its name, the length of
\* its content and the number of its lines that are not blank
GistFile(extension, length, lines) ==
    [extension |-> extension, length |-> length, lines |-> lines]

\* '.' + filename.split('.').pop()?.toLowerCase()
Ext(file) == <<".", file.extension>>

\* getCodeFiles(files): the files it may return, null when there is none
getCodeFiles(files) ==
    LET LanguageOf(f) ==
            IF LANGUAGE_EXTENSIONS(Ext(f)) # "undefined"
            THEN LANGUAGE_EXTENSIONS(Ext(f))
            ELSE LANGUAGE_EXTENSIONS(<<f.extension>>)
        IsCode(f) ==
            /\ LanguageOf(f) # "undefined"
            /\ f.length > 20 /\ f.length < 5000
            /\ f.lines >= 3
        codeFiles == SelectSeq(files, IsCode)
    IN  [i \in 1..Len(codeFiles) |->
            [length |-> codeFiles[i].length, language |-> LanguageOf(codeFiles[i])]]

\* what the request of fetchFromGists meets: it may throw, answer not OK,
\* answer with something that is no list, or answer with a list of gists,
\* each the list of its files; pick is what Math.random chooses
GistsAnswer(list, gists, pick) == [list |-> list, gists |-> gists, pick |-> pick]

\* the element of a non-empty list that pick chooses
Chosen(seq, pick) == seq[(pick % Len(seq)) + 1]

\* fetchFromGists(targetLanguage): code and language, or null
fetchFromGists(targetLanguage, remote) ==
    IF remote.list \in {"throws", "notOk", "notArray"} \/ remote.gists = <<>>
    THEN NullRet
    ELSE LET OfTarget(gist) ==
                 \E i \in 1..Len(gist) :
                    LET fileLang == LANGUAGE_EXTENSIONS(Ext(gist[i]))
                    IN  IF targetLanguage \in {"javascript", "typescript"}
                        THEN fileLang \in {"javascript", "typescript"}
                        ELSE fileLang = targetLanguage
             AnyCode(gist) ==
                 \E i \in 1..Len(gist) :
                    LANGUAGE_EXTENSIONS(Ext(gist[i])) # "undefined"
             filteredGists == SelectSeq(remote.gists, OfTarget)
             anyCodeGists == SelectSeq(remote.gists, AnyCode)
             from == IF filteredGists = <<>> THEN anyCodeGists ELSE filteredGists
         IN  IF from = <<>> THEN NullRet
             ELSE LET codeFiles == getCodeFiles(Chosen(from, remote.pick))
                  IN  IF codeFiles = <<>> THEN NullRet
                      ELSE LET codeFile == Chosen(codeFiles, remote.pick)
                           IN  [code |-> [length |-> IF codeFile.length > 500
                                                     THEN 500 ELSE codeFile.length],
                                language |-> codeFile.language]

\* getSnippet of the gists variant
getSnippetGists(lang, difficulty, useApi, bundled, pick, remote) ==
    IF lang = "warmup"
    THEN [code |-> WarmupText, source |-> "gists", language |-> "warmup",
          requests |-> 0]
    ELSE IF lang = "custom"
    THEN [code |-> "", source |-> "local", language |-> "custom", requests |-> 0]
    ELSE IF lang \notin DOMAIN bundled \/ bundled[lang][difficulty] = <<>>
    THEN [code |-> Fallback(bundled, difficulty), source |-> "local",
          language |-> "javascript", requests |-> 0]
    ELSE LET localSnippet == bundled[lang][difficulty][pick]
             gistResult == fetchFromGists(lang, remote)
         IN  IF useApi /\ gistResult # NullRet /\ gistResult.code.length > 20
             THEN [code |-> gistResult.code, source |-> "gists",
                   language |-> gistResult.language, requests |-> 1]
             ELSE [code |-> localSnippet, source |-> "local", language |-> lang,
                   requests |-> IF useApi THEN 1 ELSE 0]

\* getSnippet(language, difficulty, useApi) of the gists variant
GetSnippetGists(lang, difficulty, useApi, randomLang, bundled, pick, remote) ==
    LET chosen == IF lang = "random" THEN randomLang ELSE lang
    IN  /\ pick \in 1..(IF chosen \in DOMAIN bundled /\ bundled[chosen][difficulty] # <<>>
                        THEN Len(bundled[chosen][difficulty]) ELSE 1)
        /\ last' = [op |-> "getSnippetGists", language |-> lang, chosen |-> chosen,
                    difficulty |-> difficulty, useApi |-> useApi,
                    bundled |-> bundled, remote |-> remote,
                    ret |-> getSnippetGists(chosen, difficulty, useApi, bundled,
                                            pick, remote)]
        /\ UNCHANGED <<sessions, settings, achievements, now, dst, issued,
                       unlockedTimes, everFast, seenToday, doneToday,
                       completedOn, writers, errorPatterns, db, lastSet, appVars>>

---------------------------------------------------------------------------
(* The practice page: a typing run, reset, Review, the language buttons     *)

\* asynchronous calls the page may have in progress at once in the model
MaxTasks == 2

Languages == {"warmup", "javascript"}

\* fetchSnippet(lang, custom, targetLevel) awaiting getSnippet
GetSnippetTask(lang, targetLevel) ==
    [pc |-> "getSnippet", language |-> lang, level |-> targetLevel]

\* reset() awaiting saveSessionToHistory(), which awaits saveSession(session);
\* run tells whether the run it saves is still the one on screen
SaveSessionTask(session, lang, nextLevel) ==
    [pc |-> "saveSession", session |-> session, language |-> lang,
     level |-> nextLevel, run |-> "onScreen"]

\* the tasks without the i-th
RemoveAt(seq, i) == SubSeq(seq, 1, i - 1) \o SubSeq(seq, i + 1, Len(seq))

\* the run on screen is replaced: the saves in progress belong to a run left
RunLeft(seq) ==
    [i \in 1..Len(seq) |->
        IF seq[i].pc = "saveSession" THEN [seq[i] EXCEPT !.run = "left"]
        ELSE seq[i]]

\* the level reset() moves to
NextLevel ==
    IF isFinished /\ language # "custom"
    THEN (IF level = "easy" THEN "medium" ELSE "hard")
    ELSE level

\* handleKeyDown: the first character typed starts the clock of the run
StartTyping ==
    /\ ~isFinished
    /\ runStats.startTime = Null
    /\ runStats' = [runStats EXCEPT !.startTime = DateNow]
    /\ last' = [op |-> "handleKeyDown"]
    /\ UNCHANGED <<sessions, settings, achievements, now, dst, issued,
                   unlockedTimes, everFast, seenToday, doneToday, completedOn,
                   writers, errorPatterns, db, lastSet>>
    /\ UNCHANGED <<isFinished, language, level, snippet, tasks, savedRuns,
                   typingVars, limitVars>>

\* handleKeyDown: the character typed completes the snippet
CompleteSnippet(wpm, accuracy) ==
    /\ ~isFinished
    /\ runStats.startTime # Null
    /\ snippet # <<>>
    /\ isFinished' = TRUE
    /\ runStats' = [runStats EXCEPT !.wpm = wpm, !.accuracy = accuracy,
                                    !.endTime = DateNow]
    /\ last' = [op |-> "handleKeyDown"]
    /\ UNCHANGED <<sessions, settings, achievements, now, dst, issued,
                   unlockedTimes, everFast, seenToday, doneToday, completedOn,
                   writers, errorPatterns, db, lastSet>>
    /\ UNCHANGED <<language, level, snippet, tasks, savedRuns, typingVars,
                   limitVars>>

\* the interval of the timer effect finds timeLeft <= 1
TimerExpires ==
    /\ runStats.startTime # Null
    /\ ~isFinished
    /\ isFinished' = TRUE
    /\ runStats' = [runStats EXCEPT !.timeLeft = 0, !.endTime = DateNow]
    /\ last' = [op |-> "timer"]
    /\ UNCHANGED <<sessions, settings, achievements, now, dst, issued,
                   unlockedTimes, everFast, seenToday, doneToday, completedOn,
                   writers, errorPatterns, db, lastSet>>
    /\ UNCHANGED <<language, level, snippet, tasks, savedRuns, typingVars,
                   limitVars>>

\* the duration saveSessionToHistory stores, in seconds
Duration(stats) ==
    IF stats.endTime # Null THEN stats.endTime - stats.startTime
    ELSE DateNow - stats.startTime

\* reset(), from Escape, Restart Session or Next Snippet, up to its first
\* await that takes time: saveSession when the run has finished and
\* saveSessionToHistory does not return early, else fetchSnippet's getSnippet
Reset ==
    /\ Len(tasks) < MaxTasks
    /\ IF isFinished /\ runStats.startTime # Null /\ snippet # <<>>
       THEN /\ tasks' = Append(tasks, SaveSessionTask(
                   [SessionInput(now, runStats.wpm, runStats.accuracy)
                       EXCEPT !.language = language, !.difficulty = level,
                              !.errors = runStats.errors,
                              !.duration = Duration(runStats),
                              !.charactersTyped = Len(snippet),
                              !.theme = pageSettings.theme],
                   language, NextLevel))
            /\ level' = level
            /\ isLoading' = isLoading
       ELSE /\ tasks' = Append(tasks, GetSnippetTask(language, NextLevel))
            /\ level' = NextLevel
            /\ isLoading' = TRUE
    /\ last' = [op |-> "reset"]
    /\ UNCHANGED <<sessions, settings, achievements, now, dst, issued,
                   unlockedTimes, everFast, seenToday, doneToday, completedOn,
                   writers, errorPatterns, db, lastSet>>
    /\ UNCHANGED <<isFinished, runStats, language, snippet, savedRuns,
                   userInput, pageSettings, seconds, limitVars>>

\* the saveSession call of a reset returns; reset goes on to setLevel and
\* fetchSnippet
SaveSessionReturns(i, uuids) ==
    /\ i \in 1..Len(tasks)
    /\ tasks[i].pc = "saveSession"
    /\ \E uuid \in uuids \ issued :
          /\ sessions' = saveSession(sessions, tasks[i].session, uuid)
          /\ issued' = issued \cup {uuid}
          /\ last' = [op |-> "saveSession",
                      ret |-> WithId(tasks[i].session, uuid),
                      count |-> Count(sessions) + 1,
                      deleted |-> Range(Put(sessions, WithId(tasks[i].session, uuid)))
                                    \ Range(sessions')]
    /\ everFast' = (everFast \/ tasks[i].session.wpm >= 100)
    /\ db' = getDB(db)
    /\ level' = tasks[i].level
    /\ tasks' = [tasks EXCEPT ![i] = GetSnippetTask(tasks[i].language, tasks[i].level)]
    /\ savedRuns' = IF tasks[i].run = "onScreen" /\ savedRuns < 2
                    THEN savedRuns + 1 ELSE savedRuns
    /\ isLoading' = TRUE
    /\ UNCHANGED <<settings, achievements, now, dst, unlockedTimes, seenToday,
                   doneToday, completedOn, writers, errorPatterns, lastSet>>
    /\ UNCHANGED <<isFinished, runStats, language, snippet, userInput,
                   pageSettings, seconds, limitVars>>

\* the getSnippet call of a fetchSnippet returns: the snippet is shown and a
\* new run begins
GetSnippetReturns(i) ==
    /\ i \in 1..Len(tasks)
    /\ tasks[i].pc = "getSnippet"
    /\ snippet' = LoadedSnippet(tasks[i].language, tasks[i].level)
    /\ userInput' = <<>>
    /\ isFinished' = FALSE
    /\ runStats' = NewStats
    /\ isLoading' = FALSE
    /\ tasks' = RunLeft(RemoveAt(tasks, i))
    /\ savedRuns' = 0
    /\ last' = [op |-> "fetchSnippet"]
    /\ UNCHANGED <<sessions, settings, achievements, now, dst, issued,
                   unlockedTimes, everFast, seenToday, doneToday, completedOn,
                   writers, errorPatterns, db, lastSet>>
    /\ UNCHANGED <<language, level, pageSettings, seconds, limitVars>>

\* the Review button of the results overlay
Review ==
    /\ isFinished
    /\ isFinished' = FALSE
    /\ userInput' = <<>>
    /\ tasks' = RunLeft(tasks)
    /\ savedRuns' = 0
    /\ last' = [op |-> "review"]
    /\ UNCHANGED <<sessions, settings, achievements, now, dst, issued,
                   unlockedTimes, everFast, seenToday, doneToday, completedOn,
                   writers, errorPatterns, db, lastSet>>
    /\ UNCHANGED <<runStats, language, level, snippet, pageSettings, isLoading,
                   seconds, limitVars>>

\* a language button: setLanguage(lang), and the effect on language
SetLanguage(lang) ==
    /\ lang # language
    /\ Len(tasks) < MaxTasks
    /\ language' = lang
    /\ level' = "easy"
    /\ tasks' = Append(tasks, GetSnippetTask(lang, "easy"))
    /\ isLoading' = TRUE
    /\ last' = [op |-> "setLanguage"]
    /\ UNCHANGED <<sessions, settings, achievements, now, dst, issued,
                   unlockedTimes, everFast, seenToday, doneToday, completedOn,
                   writers, errorPatterns, db, lastSet>>
    /\ UNCHANGED <<isFinished, runStats, snippet, savedRuns, userInput,
                   pageSettings, seconds, limitVars>>

---------------------------------------------------------------------------
(* The session store on its own *)

Dates == {1, 2}
Wpms == {60, PosInfinity}

SessionInputs == {SessionInput(d, w, 100) : d \in Dates, w \in Wpms}

ImportedSessions == {Session(id, d, 60, 100) : id \in Ids, d \in Dates}

\* the files importData is given: lists of sessions, as JSON.stringify writes them
ImportFiles ==
    {JSONStringify(<<a>>) : a \in ImportedSessions}
    \cup {JSONStringify(<<a, b>>) : a \in ImportedSessions, b \in ImportedSessions}

Init ==
    /\ sessions = EmptyStore
    /\ settings = EmptyStore
    /\ achievements = EmptyStore
    /\ now = 0
    /\ dst = [kind |-> "none", day |-> 0]
    /\ issued = {}
    /\ unlockedTimes = [k \in AchievementKeys |-> 0]
    /\ everFast = FALSE
    /\ seenToday = NoCall
    /\ doneToday = <<>>
    /\ completedOn = <<>>
    /\ writers = {}
    /\ last = NoCall
    /\ errorPatterns = EmptyStore
    /\ db = NoDatabase
    /\ lastSet = EmptyStore
    /\ isFinished = FALSE
    /\ runStats = NewStats
    /\ language = "warmup"
    /\ level = "easy"
    /\ snippet = LoadedSnippet("warmup", "easy")
    /\ tasks = <<>>
    /\ savedRuns = 0
    /\ userInput = <<>>
    /\ pageSettings = NewSettings
    /\ isLoading = FALSE
    /\ seconds = 0
    /\ lastApiCall = LongAgo
    /\ lastGistsCall = LongAgo
    /\ waiting = <<>>
    /\ started = <<>>

Next ==
    \/ \E s \in SessionInputs : SaveSession(s, Ids)
    \/ \E f \in ImportFiles : ImportData(f)
    \/ ClearHistory
    \/ \E e \in BOOLEAN : ExportThenImport(e)

Spec == Init /\ [][Next]_vars

---------------------------------------------------------------------------
(* Every storage call, on few inputs *)

\* challenges a caller can hold at instant t: getDailyChallenge's of a day up
\* to today, as generated or as returned completed
ChallengesUpTo(t) ==
    UNION {{getDailyChallenge(k * DayHours), Completed(getDailyChallenge(k * DayHours))} :
             k \in 0..UTCDay(t)}

StatsInput(totalSessions, currentStreak) ==
    [totalSessions |-> totalSessions, currentStreak |-> currentStreak,
     languages |-> <<"javascript">>]

NextAch ==
    \/ UnlockAchievement("speed_demon")
    \/ \E w \in {99, 100} :
          CheckAndUnlockAchievements(Session(1, 0, w, 99), StatsInput(1, 0))
    \/ SaveSession(SessionInput(0, 100, 99), {1})
    \/ ImportData(JSONStringify(<<Session(1, 0, 99, 99)>>))
    \/ ClearHistory
    \/ SetSetting("theme", StringValue("blue"))
    \/ GetTodayChallenge(FALSE)
    \/ CompleteDailyChallenge(getDailyChallenge(now))

SpecAch == Init /\ [][NextAch]_vars

---------------------------------------------------------------------------
(* The achievement calls over time *)

CheckedSessions == {Session(1, 0, w, 100) : w \in {99, 100}}

CheckedStats == {StatsInput(n, k) : n \in {1, 100}, k \in {0, 30}}

NextUnlock ==
    \/ \E k \in {"speed_demon", "week_streak"} : UnlockAchievement(k)
    \/ \E s \in CheckedSessions, st \in CheckedStats :
          CheckAndUnlockAchievements(s, st)
    \/ Tick(22)

SpecUnlock == Init /\ [][NextUnlock]_vars

---------------------------------------------------------------------------
(* What the application calls: the practice page saves a finished run and   *)
(* writes its settings, the progress page clears the history                *)

NextApp ==
    \/ \E w \in {99, 100} : SaveSessionToHistory(w, 100, Ids)
    \/ ClearHistory
    \/ \E th \in {"emerald", "blue"} : SetSetting("theme", StringValue(th))
    \/ Tick(30)

SpecApp == Init /\ [][NextApp]_vars

---------------------------------------------------------------------------
(* The daily challenge over several days *)

NextDaily ==
    \/ \E m \in BOOLEAN : GetTodayChallenge(m)
    \/ \E c \in ChallengesUpTo(now) : CompleteDailyChallenge(c)
    \/ SetSetting("dailyChallenge", StringValue("off"))
    \/ SetSetting("theme", StringValue("blue"))
    \/ \E t \in {12, 24, 36, 48, 60, 72, 84} : Tick(t)

SpecDaily == Init /\ [][NextDaily]_vars

---------------------------------------------------------------------------
(* getStats on stores of sessions spread over the days before today *)

\* the days sessions are dated on: the days scanned and two days before them
StreakDays == (LastDay - STREAK_DAYS - 1)..LastDay

\* the dates of the sessions: noon of each day, and the hours on either side
\* of the midnight that begins the last day
StreakDates ==
    {DayHours * k + 12 : k \in StreakDays}
    \cup {DayHours * LastDay - 1, DayHours * LastDay}

\* one session per date, ids in date order
RECURSIVE StoreOfDates(_)
StoreOfDates(D) ==
    IF D = {} THEN EmptyStore
    ELSE LET latest == CHOOSE d \in D : \A e \in D : e <= d
         IN  Put(StoreOfDates(D \ {latest}), Session(Cardinality(D), latest, 60, 100))

InitStreak ==
    /\ sessions \in {StoreOfDates(D) : D \in SUBSET StreakDates}
    /\ now \in {DayHours * LastDay, DayHours * LastDay + 12}
    /\ dst \in {[kind |-> k, day |-> LastDay - 1] : k \in {"none", "spring", "fall"}}
    /\ settings = EmptyStore
    /\ achievements = EmptyStore
    /\ issued = DOMAIN sessions
    /\ unlockedTimes = [k \in AchievementKeys |-> 0]
    /\ everFast = FALSE
    /\ seenToday = NoCall
    /\ doneToday = <<>>
    /\ completedOn = <<>>
    /\ writers = {}
    /\ last = NoCall
    /\ errorPatterns = EmptyStore
    /\ db = NoDatabase
    /\ lastSet = EmptyStore
    /\ isFinished = FALSE
    /\ runStats = NewStats
    /\ language = "warmup"
    /\ level = "easy"
    /\ snippet = LoadedSnippet("warmup", "easy")
    /\ tasks = <<>>
    /\ savedRuns = 0
    /\ userInput = <<>>
    /\ pageSettings = NewSettings
    /\ isLoading = FALSE
    /\ seconds = 0
    /\ lastApiCall = LongAgo
    /\ lastGistsCall = LongAgo
    /\ waiting = <<>>
    /\ started = <<>>

NextStreak == GetStats

SpecStreak == InitStreak /\ [][NextStreak]_vars

---------------------------------------------------------------------------
(* Session store: retention, immutability, export and import *)

\* C1: after every saveSession, importData and clearHistory call has returned,
\* the number of stored sessions is at most MAX_SESSIONS.
C1_CountWithinCap == Count(sessions) <= MAX_SESSIONS

\* C2: a saveSession call that brings the stored count to n > MAX_SESSIONS
\* deletes exactly n - MAX_SESSIONS sessions, leaves every other session as
\* it was, and every deleted session's date is at most the date of every
\* session that remains; the session just saved is ranked with the others.
C2_EvictsOldestExcess ==
    [][(last'.op = "saveSession" /\ last'.ret.id \notin issued) =>
        LET stored == Put(sessions, last'.ret)
            n == Count(stored)
            deleted == DOMAIN stored \ DOMAIN sessions'
        IN  n > MAX_SESSIONS =>
              /\ Cardinality(deleted) = n - MAX_SESSIONS
              /\ DOMAIN sessions' \subseteq DOMAIN stored
              /\ \A k \in DOMAIN sessions' : sessions'[k] = stored[k]
              /\ \A d \in deleted : \A k \in DOMAIN sessions' :
                     stored[d].date <= sessions'[k].date]_vars

\* a saveSession that found two sessions too many and evicted, among them,
\* the session it had just stored
C2_Witness ==
    /\ last.op = "saveSession"
    /\ last.count = MAX_SESSIONS + 2
    /\ Cardinality(last.deleted) = 2
    /\ last.ret \in last.deleted
    /\ Count(sessions) = MAX_SESSIONS

\* C3: the fields stored under an id never change while the id is stored, and
\* a stored id disappears only in clearHistory or in saveSession's eviction.
C3_StoredSessionImmutable ==
    [][/\ \A id \in DOMAIN sessions \cap DOMAIN sessions' :
             sessions'[id] = sessions[id]
       /\ ~(DOMAIN sessions \subseteq DOMAIN sessions') =>
             last'.op \in {"clearHistory", "saveSession", "exportThenImport"}]_vars

\* C4: importData(exportData()) recreates the store it was exported from, run
\* against the emptied store or against the store itself.
C4_ExportImportRoundTrip ==
    last.op = "exportThenImport" => sessions = last.before

---------------------------------------------------------------------------
(* Achievements *)

\* C5: across all storage calls no unlocked key is ever lost, there is at
\* most one record per key, and every record has id = key.
C5_AchievementsPermanentUnique ==
    /\ [](/\ \A k \in DOMAIN achievements :
                achievements[k].id = k /\ achievements[k].key = k
          /\ \A a \in Range(achievements) : \A b \in Range(achievements) :
                a.key = b.key => a = b)
    /\ [][DOMAIN achievements \subseteq DOMAIN achievements']_vars

\* clearHistory has emptied a store that held a session, a challenge has been
\* generated and completed, and speed_demon is still unlocked
C5_Witness ==
    /\ last.op = "clearHistory"
    /\ issued # {}
    /\ sessions = EmptyStore
    /\ completedOn # <<>>
    /\ "speed_demon" \in DOMAIN achievements

\* C6: in every state the application reaches, speed_demon is unlocked
\* exactly when some saveSession call so far carried wpm >= 100.
C6_SpeedDemonIffFastSession ==
    ("speed_demon" \in DOMAIN achievements) <=> everFast

\* C7: every key is returned as newly unlocked at most once; the first
\* unlockAchievement(k) stores and returns a record, every later one returns
\* null, and no call changes a stored record or its unlockedAt.
C7_UnlocksAtMostOnce ==
    [][/\ \A k \in AchievementKeys : unlockedTimes'[k] <= 1
       /\ \A k \in DOMAIN achievements :
             k \in DOMAIN achievements' /\ achievements'[k] = achievements[k]
       /\ last'.op = "unlockAchievement" =>
             IF last'.key \in DOMAIN achievements
             THEN last'.ret = NullRet /\ achievements' = achievements
             ELSE /\ last'.ret # NullRet
                  /\ last'.ret.key = last'.key
                  /\ last'.key \in DOMAIN achievements'
                  /\ achievements'[last'.key] = last'.ret]_vars

\* a later unlockAchievement of a key that checkAndUnlockAchievements had
\* unlocked earlier returned null and left the earlier unlockedAt
C7_Witness ==
    /\ last.op = "unlockAchievement"
    /\ last.ret = NullRet
    /\ last.key = "speed_demon"
    /\ achievements["speed_demon"].unlockedAt < now
    /\ "perfectionist" \in DOMAIN achievements
    /\ unlockedTimes["speed_demon"] = 1

---------------------------------------------------------------------------
(* Daily challenge *)

\* the language of a challenge, "none" when it has no language field
Lang(c) == IF "language" \in DOMAIN c THEN c.language ELSE "none"

SameTask(a, b) == a.type = b.type /\ a.target = b.target /\ Lang(a) = Lang(b)

\* the previous getTodayChallenge call was made on the date of this one
SeenOnThisDate == seenToday.op = "getTodayChallenge" /\ seenToday.day = UTCDay(now)

\* the previous getTodayChallenge call was made on an earlier date
SeenOnEarlierDate == seenToday.op = "getTodayChallenge" /\ seenToday.day < UTCDay(now)

\* C8 as stated: two getTodayChallenge calls on the same date with no
\* completeDailyChallenge between them return the identical challenge, and
\* the second leaves the settings store unchanged.
C8_SameDateSameChallenge ==
    [][(/\ last'.op = "getTodayChallenge"
        /\ SeenOnThisDate
        /\ writers \cap {"completeToday", "completeOther"} = {})
       => (last'.ret = seenToday.ret /\ settings' = settings)]_vars

\* C8 amended: two getTodayChallenge calls on the same date with no
\* completeDailyChallenge and no setSetting('dailyChallenge', ...) between
\* them return the identical challenge, and the second leaves the settings
\* store unchanged.
C8_SameDateSameChallengeUnlessWritten ==
    [][(last'.op = "getTodayChallenge" /\ SeenOnThisDate /\ writers = {})
       => (last'.ret = seenToday.ret /\ settings' = settings)]_vars

\* a second call, hours after the first and on its date, returned the
\* challenge without generating one
C8_Witness ==
    /\ last.op = "getTodayChallenge"
    /\ last.repeated
    /\ ~last.generated
    /\ now % DayHours # 0
    /\ "theme" \in DOMAIN settings

---------------------------------------------------------------------------
(* Streak *)

\* some stored session is dated on local calendar day k
SessionOnDay(k) == \E s \in Range(sessions) : LocalDayOf(s.date) = k

\* length of the run of calendar days with a session that ends at today
RunEndingToday ==
    LET today == LocalDayOf(now)
        runs == {n \in 0..Cardinality(StreakDates) :
                   \A j \in 0..(n - 1) : SessionOnDay(today - j)}
    IN  CHOOSE n \in runs : \A m \in runs : m <= n

InWindow(i) ==
    \E s \in Range(sessions) :
        /\ LocalMidnight(LocalDayOf(now) - i) <= s.date
        /\ s.date < LocalMidnight(LocalDayOf(now) - i) + DayHours

\* length of the run of days with a session counted backward from day
\* first, not looking back further than the days scanned
RunFrom(first) ==
    LET runs == {n \in 0..(STREAK_DAYS - first) :
                   \A j \in first..(first + n - 1) : InWindow(j)}
    IN  CHOOSE n \in runs : \A m \in runs : m <= n

---------------------------------------------------------------------------
(* getStats on stores built by saveSession *)

\* sessions of different speed, accuracy and duration
StatsSessions ==
    {[SessionInput(0, x[1], x[2]) EXCEPT !.duration = x[3]] :
        x \in {<<59, 99, 15>>, <<60, 100, 30>>, <<100, 98, 30>>,
               <<PosInfinity, 100, 0>>}}

NextStats ==
    \/ \E s \in StatsSessions : SaveSession(s, 1..(MAX_SESSIONS + 1))
    \/ ClearHistory
    \/ GetStats

SpecStats == Init /\ [][NextStats]_vars

\* the sum of field f over the sessions stored under ids
RECURSIVE SumOver(_, _)
SumOver(ids, f) ==
    IF ids = {} THEN 0
    ELSE LET id == CHOOSE id \in ids : TRUE
         IN  sessions[id][f] + SumOver(ids \ {id}, f)

\* r is the mean of field f over the stored sessions, rounded to the nearest
\* integer (halves upward); the mean of values that include Infinity is Infinity
RoundedMean(r, f) ==
    IF \E s \in Range(sessions) : s[f] = PosInfinity THEN r = PosInfinity
    ELSE LET n == Count(sessions)
             sum == SumOver(DOMAIN sessions, f)
         IN  2 * r * n - n <= 2 * sum /\ 2 * sum < 2 * r * n + n

\* C11: on a non-empty store getStats returns totalSessions = the number of
\* stored sessions, bestWpm = the largest wpm, averageWpm and averageAccuracy
\* = the means rounded to the nearest integer, totalTime = the sum of the
\* durations; on an empty store all six fields are 0; and when every wpm is
\* an integer, averageWpm <= bestWpm.
C11_StatsOfStore ==
    last.op = "getStats" =>
        IF Count(sessions) = 0
        THEN last.ret = [totalSessions |-> 0, bestWpm |-> 0, averageWpm |-> 0,
                         averageAccuracy |-> 0, totalTime |-> 0,
                         currentStreak |-> 0]
        ELSE /\ last.ret.totalSessions = Cardinality(DOMAIN sessions)
             /\ \E s \in Range(sessions) : s.wpm = last.ret.bestWpm
             /\ \A s \in Range(sessions) : s.wpm <= last.ret.bestWpm
             /\ RoundedMean(last.ret.averageWpm, "wpm")
             /\ RoundedMean(last.ret.averageAccuracy, "accuracy")
             /\ last.ret.totalTime = SumOver(DOMAIN sessions, "duration")
             /\ (\A s \in Range(sessions) : s.wpm # PosInfinity) =>
                    last.ret.averageWpm <= last.ret.bestWpm

\* getStats on two sessions whose mean speed and mean accuracy both fall on a
\* half
C11_Witness ==
    /\ last.op = "getStats"
    /\ Count(sessions) = 2
    /\ {s.wpm : s \in Range(sessions)} = {59, 60}
    /\ last.ret.averageWpm = 60
    /\ last.ret.averageAccuracy = 100
    /\ last.ret.totalTime = 45

---------------------------------------------------------------------------
(* The settings the practice page keeps: theme, sound, difficulty *)

\* the values the page writes under each key
SettingValues ==
    [theme |-> {StringValue("emerald"), StringValue("blue")},
     sound |-> {BooleanValue(TRUE), BooleanValue(FALSE)},
     difficulty |-> {StringValue("hardcore")}]

\* the defaults loadSettings passes
SettingDefaults ==
    [theme |-> StringValue("emerald"), sound |-> BooleanValue(TRUE),
     difficulty |-> StringValue("standard")]

NextSettings ==
    \/ \E k \in DOMAIN SettingValues : \E v \in SettingValues[k] : SetSetting(k, v)
    \/ \E k \in DOMAIN SettingDefaults : GetSetting(k, SettingDefaults[k])
    \/ SaveSession(SessionInput(0, 60, 100), {1})

SpecSettings == Init /\ [][NextSettings]_vars

\* C12: after any sequence of setSetting calls getSetting(k, d) returns the
\* value of the most recent setSetting(k, v), and d when k was never
\* written; setSetting(k, v) leaves the records of all other keys and the
\* other stores as they were.
C12_LastWriteWins ==
    /\ [](last.op = "getSetting" =>
            last.ret = (IF last.key \in DOMAIN lastSet THEN lastSet[last.key]
                        ELSE last.defaultValue))
    /\ [][last'.op = "setSetting" =>
            /\ DOMAIN settings' = DOMAIN settings \cup {last'.key}
            /\ \A k \in DOMAIN settings \ {last'.key} : settings'[k] = settings[k]
            /\ settings'[last'.key].value = last'.value
            /\ sessions' = sessions
            /\ achievements' = achievements
            /\ errorPatterns' = errorPatterns]_vars

\* sound was written true and then false, and getSetting('sound', true)
\* returned false, with a theme and a session stored
C12_Witness ==
    /\ last.op = "getSetting"
    /\ last.key = "sound"
    /\ last.defaultValue = BooleanValue(TRUE)
    /\ last.ret = BooleanValue(FALSE)
    /\ "theme" \in DOMAIN settings
    /\ "difficulty" \notin DOMAIN settings
    /\ sessions # EmptyStore

---------------------------------------------------------------------------
(* Opening a database left by each schema version *)

\* the databases a browser may hold when the page loads: none, one of schema
\* version 1 with its two stores, one of schema version 2 with its four
StoredDatabases ==
    {NoDatabase,
     [version |-> 1, oldVersion |-> 0,
      objectStoreNames |-> <<"sessions", "settings">>, dbPromise |-> FALSE],
     [version |-> 2, oldVersion |-> 0,
      objectStoreNames |-> <<"sessions", "settings", "errorPatterns",
                             "achievements">>,
      dbPromise |-> FALSE]}

InitDB ==
    /\ db \in StoredDatabases
    /\ sessions \in {EmptyStore} \cup
          (IF db.version >= 1
           THEN {Put(EmptyStore, Session(1, 0, 60, 100))} ELSE {})
    /\ settings \in {EmptyStore} \cup
          (IF db.version >= 1
           THEN {setSetting(EmptyStore, "theme", StringValue("blue"))} ELSE {})
    /\ achievements \in {EmptyStore} \cup
          (IF db.version >= 2
           THEN {Put(EmptyStore, [id |-> "speed_demon", key |-> "speed_demon",
                                  unlockedAt |-> 0])}
           ELSE {})
    /\ errorPatterns = EmptyStore
    /\ issued = DOMAIN sessions
    /\ lastSet = [k \in DOMAIN settings |-> settings[k].value]
    /\ now = 0
    /\ dst = [kind |-> "none", day |-> 0]
    /\ unlockedTimes = [k \in AchievementKeys |-> 0]
    /\ everFast = FALSE
    /\ seenToday = NoCall
    /\ doneToday = <<>>
    /\ completedOn = <<>>
    /\ writers = {}
    /\ last = NoCall
    /\ isFinished = FALSE
    /\ runStats = NewStats
    /\ language = "warmup"
    /\ level = "easy"
    /\ snippet = LoadedSnippet("warmup", "easy")
    /\ tasks = <<>>
    /\ savedRuns = 0
    /\ userInput = <<>>
    /\ pageSettings = NewSettings
    /\ isLoading = FALSE
    /\ seconds = 0
    /\ lastApiCall = LongAgo
    /\ lastGistsCall = LongAgo
    /\ waiting = <<>>
    /\ started = <<>>

NextDB ==
    \/ GetSetting("theme", StringValue("emerald"))
    \/ GetStats
    \/ SaveSession(SessionInput(0, 100, 100), {2})
    \/ SetSetting("sound", BooleanValue(FALSE))
    \/ UnlockAchievement("night_owl")
    \/ Reload

SpecDB == InitDB /\ [][NextDB]_vars

\* the object stores an open has created
Created == SubSeq(db'.objectStoreNames, Len(db.objectStoreNames) + 1,
                  Len(db'.objectStoreNames))

\* C13: opening the database from old version 0 creates sessions, settings,
\* errorPatterns and achievements; from old version 1 it creates only
\* errorPatterns and achievements and leaves the contents of sessions and
\* settings as they were; from version 2 it creates nothing; after any open
\* each of the four stores exists exactly once.
C13_VersionedMigration ==
    /\ [][(~db.dbPromise /\ db'.dbPromise) =>
            /\ db'.version = DB_VERSION
            /\ SubSeq(db'.objectStoreNames, 1, Len(db.objectStoreNames))
                 = db.objectStoreNames
            /\ db.version = 0 =>
                 Created = <<"sessions", "settings", "errorPatterns", "achievements">>
            /\ db.version = 1 => Created = <<"errorPatterns", "achievements">>
            /\ db.version = 2 => Created = <<>>
            /\ last'.op \in {"getSetting", "getStats"} =>
                 sessions' = sessions /\ settings' = settings]_vars
    /\ [](db.dbPromise =>
            /\ Len(db.objectStoreNames) = 4
            /\ {db.objectStoreNames[i] : i \in 1..4}
                 = {"sessions", "settings", "errorPatterns", "achievements"})

\* getSetting opened a version 1 database and read the theme it held, the
\* stored session still there
C13_Witness ==
    /\ last.op = "getSetting"
    /\ last.ret = StringValue("blue")
    /\ db.dbPromise
    /\ db.oldVersion = 1
    /\ db.version = 2
    /\ Len(db.objectStoreNames) = 4
    /\ 1 \in DOMAIN sessions
    /\ achievements = EmptyStore

---------------------------------------------------------------------------
(* Error patterns saved over time *)

NextPatterns ==
    \/ \E typed \in {"a", "b"} : SaveErrorPattern("c", typed, 0, Ids)
    \/ \E t \in {1, 2} : Tick(t)
    \/ SaveSession(SessionInput(0, 60, 100), {1})

SpecPatterns == Init /\ [][NextPatterns]_vars

\* C14: once a saveErrorPattern call has returned the number of stored
\* patterns is at most the cap, and the call has removed exactly the excess
\* patterns, each dated no later than every pattern that remains, and left
\* the others as they were.
C14_PatternsWithinCap ==
    /\ [](Count(errorPatterns) <= MAX_PATTERNS)
    /\ [][last'.op = "saveErrorPattern" =>
            LET stored == Put(errorPatterns, last'.ret)
                n == Count(stored)
                deleted == DOMAIN stored \ DOMAIN errorPatterns'
            IN  /\ DOMAIN errorPatterns' \subseteq DOMAIN stored
                /\ \A k \in DOMAIN errorPatterns' : errorPatterns'[k] = stored[k]
                /\ Cardinality(deleted) =
                      (IF n > MAX_PATTERNS THEN n - MAX_PATTERNS ELSE 0)
                /\ \A d \in deleted : \A k \in DOMAIN errorPatterns' :
                      stored[d].date <= errorPatterns'[k].date]_vars

\* a saveErrorPattern that found one pattern too many and removed the oldest,
\* which was not the one with the smallest id
C14_Witness ==
    /\ last.op = "saveErrorPattern"
    /\ last.count = MAX_PATTERNS + 1
    /\ Count(errorPatterns) = MAX_PATTERNS
    /\ \E d \in last.deleted :
          /\ d.date < now
          /\ \E k \in DOMAIN errorPatterns : k < d.id
    /\ last.ret.id \in DOMAIN errorPatterns

---------------------------------------------------------------------------
(* getDailyChallenge over the dates of a month *)

\* the last calendar day on which the challenge is asked for
LastChallengeDay == 32

\* hours pass, up to the end of the last day
Later(hours) ==
    /\ now + hours < (LastChallengeDay + 1) * DayHours
    /\ now' = now + hours
    /\ last' = [op |-> "tick"]
    /\ UNCHANGED <<sessions, settings, achievements, dst, issued, unlockedTimes,
                   everFast, seenToday, doneToday, completedOn, writers,
                   errorPatterns, db, lastSet, appVars>>

InitChallenge ==
    /\ now \in {DayHours * k : k \in 0..LastChallengeDay}
    /\ sessions = EmptyStore
    /\ settings = EmptyStore
    /\ achievements = EmptyStore
    /\ errorPatterns = EmptyStore
    /\ db = NoDatabase
    /\ lastSet = EmptyStore
    /\ dst = [kind |-> "none", day |-> 0]
    /\ issued = {}
    /\ unlockedTimes = [k \in AchievementKeys |-> 0]
    /\ everFast = FALSE
    /\ seenToday = NoCall
    /\ doneToday = <<>>
    /\ completedOn = <<>>
    /\ writers = {}
    /\ last = NoCall
    /\ isFinished = FALSE
    /\ runStats = NewStats
    /\ language = "warmup"
    /\ level = "easy"
    /\ snippet = LoadedSnippet("warmup", "easy")
    /\ tasks = <<>>
    /\ savedRuns = 0
    /\ userInput = <<>>
    /\ pageSettings = NewSettings
    /\ isLoading = FALSE
    /\ seconds = 0
    /\ lastApiCall = LongAgo
    /\ lastGistsCall = LongAgo
    /\ waiting = <<>>
    /\ started = <<>>

NextChallenge ==
    \/ GetDailyChallenge
    \/ Later(12)

SpecChallenge == InitChallenge /\ [][NextChallenge]_vars

\* year + month + day of the date of an instant
DateSeed(t) ==
    CalendarDate(UTCDay(t))[1] + CalendarDate(UTCDay(t))[2]
        + CalendarDate(UTCDay(t))[3]

\* C15: with seed = year + month + day and r = (seed * 9301 + 49297) mod
\* 233280, getDailyChallenge returns the template with index r mod 3 of
\* (speed, accuracy, language); a speed target is 60 + (r mod 40), within
\* 60..99; an accuracy target is 95 + (r mod 5), within 95..99; a language
\* challenge has target 1 and the language at index r mod 4 of (javascript,
\* python, typescript, rust); the language field is present only for type
\* language; completed is false; and two calls on the same date return
\* equal results.
C15_ChallengeOfTheDate ==
    [][last'.op = "getDailyChallenge" =>
        LET r == (DateSeed(now) * 9301 + 49297) % 233280
            c == last'.ret
        IN  /\ c.type = <<"speed", "accuracy", "language">>[(r % 3) + 1]
            /\ c.type = "speed" =>
                  c.target = 60 + (r % 40) /\ c.target \in 60..99
            /\ c.type = "accuracy" =>
                  c.target = 95 + (r % 5) /\ c.target \in 95..99
            /\ c.type = "language" =>
                  /\ c.target = 1
                  /\ c.language =
                       <<"javascript", "python", "typescript", "rust">>[(r % 4) + 1]
            /\ ("language" \in DOMAIN c) <=> (c.type = "language")
            /\ c.completed = FALSE
            /\ (seenToday.op = "getDailyChallenge" /\ seenToday.day = UTCDay(now))
                  => c = seenToday.ret]_vars

\* on the ninth of January, at noon as at midnight, getDailyChallenge
\* returned the accuracy challenge of that date
C15_Witness ==
    /\ last.op = "getDailyChallenge"
    /\ last.repeated
    /\ last.ret.type = "accuracy"
    /\ CalendarDate(UTCDay(now)) = <<2027, 1, 9>>
    /\ now % DayHours = 12
    /\ last.ret.target = 95 + ((((2027 + 1 + 9) * 9301 + 49297) % 233280) % 5)

---------------------------------------------------------------------------
(* The achievement rules at their thresholds *)

\* arguments just below and at the thresholds of speed, accuracy, session
\* count and streak
RuleArguments ==
    {<<Session(1, 0, 99, 99), StatsInput(2, 6)>>,
     <<Session(1, 0, 100, 99), StatsInput(1, 0)>>,
     <<Session(1, 0, 99, 100), StatsInput(99, 7)>>,
     <<Session(1, 0, 99, 99), StatsInput(100, 29)>>,
     <<Session(1, 0, 100, 99), StatsInput(100, 30)>>}

NextRules ==
    \/ \E a \in RuleArguments : CheckAndUnlockAchievements(a[1], a[2])
    \/ UnlockAchievement("marathon")
    \/ \E t \in {8, 21, 22} : Tick(t)

SpecRules == Init /\ [][NextRules]_vars

\* the keys whose rule holds on a session, the statistics and an hour
RuleHolds(session, stats, hour) ==
    (IF stats.totalSessions = 1 THEN {"first_session"} ELSE {})
    \cup (IF session.wpm >= 100 THEN {"speed_demon"} ELSE {})
    \cup (IF session.accuracy = 100 THEN {"perfectionist"} ELSE {})
    \cup (IF stats.currentStreak >= 7 THEN {"week_streak"} ELSE {})
    \cup (IF stats.currentStreak >= 30 THEN {"month_streak"} ELSE {})
    \cup (IF stats.totalSessions >= 100 THEN {"marathon"} ELSE {})
    \cup (IF hour < 8 THEN {"early_bird"} ELSE {})
    \cup (IF hour >= 22 THEN {"night_owl"} ELSE {})

\* C16: checkAndUnlockAchievements(session, stats) returns exactly the
\* achievements whose rule holds on its arguments and the current hour and
\* that were not unlocked before the call, each once, stores them, and
\* changes nothing else in the achievements store.
C16_ReturnsNewlyEarned ==
    [][last'.op = "checkAndUnlockAchievements" =>
        LET ret == last'.ret
            earned == RuleHolds(last'.session, last'.stats, now % DayHours)
                        \ DOMAIN achievements
        IN  /\ {ret[i].key : i \in 1..Len(ret)} = earned
            /\ Len(ret) = Cardinality(earned)
            /\ DOMAIN achievements' = DOMAIN achievements \cup earned
            /\ \A k \in DOMAIN achievements : achievements'[k] = achievements[k]
            /\ \A i \in 1..Len(ret) :
                  /\ achievements'[ret[i].key] = ret[i]
                  /\ ret[i].id = ret[i].key
                  /\ ret[i].unlockedAt = now]_vars

\* at 22 o'clock a call with a hundredth session and a streak of 30 returned
\* speed_demon, month_streak and night_owl, but not marathon and week_streak,
\* unlocked before, nor early_bird
C16_Witness ==
    /\ last.op = "checkAndUnlockAchievements"
    /\ now = 22
    /\ last.stats.totalSessions = 100
    /\ last.stats.currentStreak = 30
    /\ {last.ret[i].key : i \in 1..Len(last.ret)} =
          {"speed_demon", "month_streak", "night_owl"}
    /\ achievements["marathon"].unlockedAt < now
    /\ achievements["week_streak"].unlockedAt < now
    /\ "early_bird" \notin DOMAIN achievements

---------------------------------------------------------------------------
(* Queries by recency *)

NextQuery ==
    \/ SaveSessionToHistory(60, 100, Ids)
    \/ ImportData(JSONStringify(<<Session(4, 30, 60, 100)>>))
    \/ \E limit \in 0..(MAX_SESSIONS + 2) : GetSessions(limit)
    \/ \E days \in {0, 1} : GetRecentSessions(days)
    \/ \E t \in {12, 36, 60} : Tick(t)

SpecQuery == Init /\ [][NextQuery]_vars

\* seq lists stored sessions, none twice, in non-increasing date order
NewestFirst(seq) ==
    /\ \A i \in 1..Len(seq) : seq[i] \in Range(sessions)
    /\ \A i \in 1..Len(seq) : \A j \in 1..Len(seq) :
          i < j => seq[i].id # seq[j].id /\ seq[i].date >= seq[j].date

\* C17: getSessions(L) returns min(L, number of stored sessions) sessions,
\* the ones with the largest dates, in non-increasing date order;
\* getRecentSessions(d) returns exactly the stored sessions dated at or
\* after now - d days, newest first; neither call changes the store.
C17_QueriesByRecency ==
    /\ [](last.op = "getSessions" =>
            /\ Len(last.ret) = (IF last.limit < Count(sessions)
                                THEN last.limit ELSE Count(sessions))
            /\ NewestFirst(last.ret)
            /\ \A s \in Range(sessions) :
                  (\A i \in 1..Len(last.ret) : s # last.ret[i]) =>
                  (\A i \in 1..Len(last.ret) : s.date <= last.ret[i].date))
    /\ [](last.op = "getRecentSessions" =>
            /\ {last.ret[i] : i \in 1..Len(last.ret)} =
                  {s \in Range(sessions) : s.date >= now - (last.days * DayHours)}
            /\ NewestFirst(last.ret))
    /\ [][last'.op \in {"getSessions", "getRecentSessions"} =>
            sessions' = sessions]_vars

\* getSessions(2) on three stored sessions returned the two newest, the
\* imported one first, and left out the oldest
C17_Witness ==
    /\ last.op = "getSessions"
    /\ last.limit = 2
    /\ Count(sessions) = 3
    /\ last.ret[1].id = 4
    /\ last.ret[2].date < last.ret[1].date
    /\ \E s \in Range(sessions) : s.date < last.ret[2].date

---------------------------------------------------------------------------
(* Typing runs on the practice page *)

NextRun ==
    \/ StartTyping
    \/ CompleteSnippet(60, 100)
    \/ TimerExpires
    \/ Reset
    \/ \E i \in 1..MaxTasks : SaveSessionReturns(i, 1..MaxTasks)
    \/ \E i \in 1..MaxTasks : GetSnippetReturns(i)
    \/ Review
    \/ \E lang \in Languages : SetLanguage(lang)

SpecRun == Init /\ [][NextRun]_vars

\* C18: whenever a run that has finished is left, by reset, by Review or by
\* choosing another language, a session for that run has been saved; and a
\* session is saved only by a reset made while the run on screen had
\* finished.
C18_SessionIffRunFinished ==
    [][/\ (isFinished /\ ~isFinished') => savedRuns >= 1
       /\ (Len(tasks') > Len(tasks) /\ tasks'[Len(tasks')].pc = "saveSession")
             => isFinished
       /\ sessions' # sessions =>
             \E i \in 1..Len(tasks) :
                /\ tasks[i].pc = "saveSession"
                /\ last'.op = "saveSession"
                /\ last'.ret.date = tasks[i].session.date]_vars

\* the saveSession calls of the page in progress
SavesInProgress == {i \in 1..Len(tasks) : tasks[i].pc = "saveSession"}

\* C19: at no time are two saveSession calls of the page in progress, and a
\* finished run has at most one session saved for it, however often reset
\* is triggered before the first save and reload have completed.
C19_OneSavePerRun ==
    /\ Cardinality(SavesInProgress) <= 1
    /\ savedRuns <= 1

---------------------------------------------------------------------------
(* getSnippet against every answer of the remote service *)

Difficulties == {"easy", "hard"}

\* tables of bundled snippets: one with two languages, cpp without hard
\* snippets, and one without any language
BundledTables ==
    {[javascript |-> [easy |-> <<"js-easy-1", "js-easy-2">>, medium |-> <<>>,
                      hard |-> <<"js-hard-1">>],
      cpp |-> [easy |-> <<"cpp-easy-1">>, medium |-> <<>>, hard |-> <<>>]],
     [l \in {} |-> <<>>]}

\* texts of a fetched file: only an import line; ten characters; two short
\* lines around an import line; eleven characters; eleven lines of thirty
RemoteTexts ==
    {<<Line(30, TRUE)>>,
     <<Line(10, FALSE)>>,
     <<Line(6, FALSE), Line(20, TRUE), Line(4, FALSE)>>,
     <<Line(11, FALSE)>>,
     [i \in 1..11 |-> Line(30, FALSE)]}

RemoteAnswers ==
    {RemoteAnswer(search, "ok", <<>>) : search \in {"throws", "notOk", "empty"}}
    \cup {RemoteAnswer("items", file, <<>>) : file \in {"throws", "notOk"}}
    \cup {RemoteAnswer("items", "ok", text) : text \in RemoteTexts}

GistsAnswers ==
    {GistsAnswer(list, <<>>, 0) : list \in {"throws", "notOk", "notArray", "gists"}}
    \cup {GistsAnswer("gists", << <<GistFile("js", 100, 5)>> >>, 0),
          GistsAnswer("gists", << <<GistFile("txt", 100, 5)>>,
                                  <<GistFile("cpp", 10, 1), GistFile("py", 600, 9)>> >>, 1)}

NextSnippet ==
    \/ \E lang \in {"javascript", "cpp", "random", "warmup", "custom"},
          difficulty \in Difficulties, useApi \in BOOLEAN,
          randomLang \in {"javascript", "cpp"}, bundled \in BundledTables,
          pick \in 1..2, remote \in RemoteAnswers :
          GetSnippet(lang, difficulty, useApi, randomLang, bundled, pick, remote)
    \/ \E lang \in {"javascript", "cpp", "random", "warmup", "custom"},
          difficulty \in Difficulties, useApi \in BOOLEAN,
          randomLang \in {"javascript", "cpp"}, bundled \in BundledTables,
          pick \in 1..2, remote \in GistsAnswers :
          GetSnippetGists(lang, difficulty, useApi, randomLang, bundled, pick, remote)

SpecSnippet == Init /\ [][NextSnippet]_vars

\* the snippets bundled with the page: those of a table and the literal
\* getSnippet falls back on
BundledSnippets(bundled) ==
    UNION {{bundled[l][d][i] : i \in 1..Len(bundled[l][d])} :
             l \in DOMAIN bundled, d \in {"easy", "medium", "hard"}}
    \cup {"console.log(\"Hello\");"}

\* the remote request failed or yielded a text that is too short
RemoteFailed(remote) ==
    \/ remote.search \in {"throws", "notOk", "empty"}
    \/ remote.file \in {"throws", "notOk"}
    \/ cleanCodeSnippet(remote.content).length <= 10

GistsFailed(remote) ==
    \/ remote.list \in {"throws", "notOk", "notArray"}
    \/ remote.gists = <<>>
    \/ \A i \in 1..Len(remote.gists) : \A j \in 1..Len(remote.gists[i]) :
          remote.gists[i][j].length <= 20

\* C20: for every code language and difficulty getSnippet returns a
\* snippet; with useApi = true, whenever the remote request fails (thrown
\* error, non-OK response, empty result list) or yields text that is too
\* short, the result is a bundled snippet with source 'local'; with useApi =
\* false the result is a bundled snippet and no remote request is made.
C20_FallsBackToLocal ==
    /\ (last.op = "getSnippet" /\ last.chosen \in {"javascript", "cpp"}) =>
          /\ last.ret.source \in {"local", "github"}
          /\ (last.useApi /\ RemoteFailed(last.remote)) =>
                /\ last.ret.source = "local"
                /\ last.ret.code \in BundledSnippets(last.bundled)
          /\ ~last.useApi =>
                /\ last.ret.requests = 0
                /\ last.ret.source = "local"
                /\ last.ret.code \in BundledSnippets(last.bundled)
    /\ (last.op = "getSnippetGists" /\ last.chosen \in {"javascript", "cpp"}) =>
          /\ last.ret.source \in {"local", "gists"}
          /\ (last.useApi /\ GistsFailed(last.remote)) =>
                /\ last.ret.source = "local"
                /\ last.ret.code \in BundledSnippets(last.bundled)
          /\ ~last.useApi =>
                /\ last.ret.requests = 0
                /\ last.ret.source = "local"
                /\ last.ret.code \in BundledSnippets(last.bundled)

\* for language 'random', cpp chosen, both requests answered and the file
\* cleaned to ten characters: the bundled cpp snippet was returned as local
C20_Witness ==
    /\ last.op = "getSnippet"
    /\ last.language = "random"
    /\ last.chosen = "cpp"
    /\ last.useApi
    /\ last.remote.search = "items"
    /\ last.remote.file = "ok"
    /\ cleanCodeSnippet(last.remote.content).length = 10
    /\ last.ret.requests = 2
    /\ last.ret.source = "local"
    /\ last.ret.code = "cpp-easy-1"

---------------------------------------------------------------------------
(* The rate limiters of the snippets API *)

\* 2000 ms and 1000 ms, in seconds
GITHUB_API_DELAY == 2
GITHUB_GISTS_DELAY == 1

\* calls of the limiters in one behaviour of the model
MaxCalls == 3

\* the last second the clock of the model reaches
MaxSeconds == 4

\* rateLimit() up to its await: a call that finds the last one less than
\* GITHUB_API_DELAY ago waits in setTimeout for the rest of the delay, any
\* other sets lastApiCall and returns, and its caller begins the request
RateLimit ==
    /\ Len(started) + Len(waiting) < MaxCalls
    /\ LET timeSinceLastCall == DateNow - lastApiCall
       IN  IF timeSinceLastCall < GITHUB_API_DELAY
           THEN /\ waiting' = Append(waiting,
                       [api |-> "github",
                        wake |-> DateNow + (GITHUB_API_DELAY - timeSinceLastCall)])
                /\ UNCHANGED <<lastApiCall, started>>
           ELSE /\ lastApiCall' = DateNow
                /\ started' = Append(started, [api |-> "github", at |-> DateNow])
                /\ UNCHANGED waiting
    /\ last' = [op |-> "rateLimit"]
    /\ UNCHANGED <<sessions, settings, achievements, now, dst, issued,
                   unlockedTimes, everFast, seenToday, doneToday, completedOn,
                   writers, errorPatterns, db, lastSet>>
    /\ UNCHANGED <<isFinished, runStats, language, level, snippet, tasks,
                   savedRuns, typingVars, lastGistsCall>>

\* rateLimitGists() up to its await
RateLimitGists ==
    /\ Len(started) + Len(waiting) < MaxCalls
    /\ LET timeSinceLastCall == DateNow - lastGistsCall
       IN  IF timeSinceLastCall < GITHUB_GISTS_DELAY
           THEN /\ waiting' = Append(waiting,
                       [api |-> "gists",
                        wake |-> DateNow + (GITHUB_GISTS_DELAY - timeSinceLastCall)])
                /\ UNCHANGED <<lastGistsCall, started>>
           ELSE /\ lastGistsCall' = DateNow
                /\ started' = Append(started, [api |-> "gists", at |-> DateNow])
                /\ UNCHANGED waiting
    /\ last' = [op |-> "rateLimitGists"]
    /\ UNCHANGED <<sessions, settings, achievements, now, dst, issued,
                   unlockedTimes, everFast, seenToday, doneToday, completedOn,
                   writers, errorPatterns, db, lastSet>>
    /\ UNCHANGED <<isFinished, runStats, language, level, snippet, tasks,
                   savedRuns, typingVars, lastApiCall>>

\* the setTimeout of the i-th waiting call fires: the limiter sets its
\* variable to Date.now() and returns, and its caller begins the request
TimeoutFires(i) ==
    /\ i \in 1..Len(waiting)
    /\ waiting[i].wake <= DateNow
    /\ waiting' = SubSeq(waiting, 1, i - 1) \o SubSeq(waiting, i + 1, Len(waiting))
    /\ started' = Append(started, [api |-> waiting[i].api, at |-> DateNow])
    /\ IF waiting[i].api = "github"
       THEN lastApiCall' = DateNow /\ UNCHANGED lastGistsCall
       ELSE lastGistsCall' = DateNow /\ UNCHANGED lastApiCall
    /\ last' = [op |-> "setTimeout"]
    /\ UNCHANGED <<sessions, settings, achievements, now, dst, issued,
                   unlockedTimes, everFast, seenToday, doneToday, completedOn,
                   writers, errorPatterns, db, lastSet>>
    /\ UNCHANGED <<isFinished, runStats, language, level, snippet, tasks,
                   savedRuns, typingVars>>

\* a second passes; every timer due has fired before
Second ==
    /\ seconds < MaxSeconds
    /\ \A i \in 1..Len(waiting) : waiting[i].wake > DateNow
    /\ seconds' = seconds + 1
    /\ UNCHANGED <<sessions, settings, achievements, now, dst, issued,
                   unlockedTimes, everFast, seenToday, doneToday, completedOn,
                   writers, last, errorPatterns, db, lastSet>>
    /\ UNCHANGED <<isFinished, runStats, language, level, snippet, tasks,
                   savedRuns, userInput, pageSettings, isLoading, limitVars>>

NextLimit ==
    \/ RateLimit
    \/ RateLimitGists
    \/ \E i \in 1..MaxCalls : TimeoutFires(i)
    \/ Second

SpecLimit == Init /\ [][NextLimit]_vars

\* the delay of the limiter of an API
DelayOf(api) == IF api = "github" THEN GITHUB_API_DELAY ELSE GITHUB_GISTS_DELAY

\* C21: any two requests that passed through rateLimit begin at least
\* GITHUB_API_DELAY apart, and any two that passed through rateLimitGists
\* at least GITHUB_GISTS_DELAY apart, also with several calls in flight.
C21_RequestsApart ==
    \A i, j \in 1..Len(started) :
        (i < j /\ started[i].api = started[j].api)
            => started[j].at - started[i].at >= DelayOf(started[i].api)

---------------------------------------------------------------------------
(* Typing: handleKeyDown, calculateStats, the countdown, the settings panel *)

\* the keys pressed in the model: two printable ones and Backspace
Keys == {"a", "b", "Backspace"}

\* e.key.length === 1
Printable(key) == key # "Backspace"

\* the positions of input that hold the character of the snippet
CorrectChars(input, currentSnippet) ==
    {i \in 1..Len(input) : i <= Len(currentSnippet) /\ input[i] = currentSnippet[i]}

\* calculateStats(input, currentSnippet, start) called at instant t, in
\* seconds: (length / 5) / (timeElapsed / 60) is 12 * length / timeElapsed
calculateStats(input, currentSnippet, start, t) ==
    LET timeElapsed == t - start
        wpm == IF Len(input) = 0 THEN 0
               ELSE IF timeElapsed = 0 THEN PosInfinity
               ELSE MathRoundDiv(12 * Len(input), timeElapsed)
        correctChars == Cardinality(CorrectChars(input, currentSnippet))
        errors == Len(input) - correctChars
        rounded == IF Len(input) = 0 THEN 0
                   ELSE MathRoundDiv(100 * correctChars, Len(input))
        accuracy == IF rounded = 0 THEN 100 ELSE rounded
    IN  [wpm |-> wpm, accuracy |-> accuracy, errors |-> errors]

\* snippet[userInput.length] === e.key
Expected(key) ==
    Len(userInput) < Len(snippet) /\ snippet[Len(userInput) + 1] = key

\* errors a run may count in the model by keys that hardcore mode rejects
MaxErrors == 2

\* handleKeyDown(e), with the state of the render it was made in
HandleKeyDown(key) ==
    LET started1 == IF runStats.startTime = Null /\ Printable(key)
                    THEN [runStats EXCEPT !.startTime = DateNow]
                    ELSE runStats
        nextInput == Append(userInput, key)
        calculated == calculateStats(nextInput, snippet, runStats.startTime, DateNow)
        withStats == IF runStats.startTime # Null
                     THEN [started1 EXCEPT !.wpm = calculated.wpm,
                                           !.accuracy = calculated.accuracy,
                                           !.errors = calculated.errors,
                                           !.totalChars = Len(nextInput)]
                     ELSE started1
    IN  /\ IF isFinished
           THEN UNCHANGED <<userInput, runStats, isFinished>>
           ELSE IF key = "Backspace"
           THEN /\ userInput' = SubSeq(userInput, 1, Len(userInput) - 1)
                /\ UNCHANGED <<runStats, isFinished>>
           ELSE IF pageSettings.difficulty = "hardcore" /\ ~Expected(key)
           THEN /\ runStats.errors < MaxErrors
                /\ userInput' = <<>>
                /\ runStats' = [started1 EXCEPT !.errors = @ + 1]
                /\ UNCHANGED isFinished
           ELSE /\ userInput' = nextInput
                /\ runStats' = IF Len(nextInput) = Len(snippet)
                               THEN [withStats EXCEPT !.endTime = DateNow]
                               ELSE withStats
                /\ isFinished' = (Len(nextInput) = Len(snippet))
        /\ last' = [op |-> "handleKeyDown", key |-> key]
        /\ UNCHANGED <<sessions, settings, achievements, now, dst, issued,
                       unlockedTimes, everFast, seenToday, doneToday,
                       completedOn, writers, errorPatterns, db, lastSet>>
        /\ UNCHANGED <<language, level, snippet, tasks, savedRuns,
                       pageSettings, isLoading, seconds, limitVars>>

\* seconds the clock of a typing run may reach in the model
MaxTypingSeconds == 5

\* the interval of the timer effect fires, a second after the last time
TimerTick ==
    /\ runStats.startTime # Null
    /\ ~isFinished
    /\ runStats.timeLeft > 0
    /\ seconds < MaxTypingSeconds
    /\ seconds' = seconds + 1
    /\ IF runStats.timeLeft <= 1
       THEN /\ isFinished' = TRUE
            /\ runStats' = [runStats EXCEPT !.timeLeft = 0,
                                            !.endTime = (now * HourSeconds) + seconds']
       ELSE /\ runStats' = [runStats EXCEPT !.timeLeft = @ - 1]
            /\ UNCHANGED isFinished
    /\ last' = [op |-> "timer"]
    /\ UNCHANGED <<sessions, settings, achievements, now, dst, issued,
                   unlockedTimes, everFast, seenToday, doneToday, completedOn,
                   writers, errorPatterns, db, lastSet>>
    /\ UNCHANGED <<language, level, snippet, tasks, savedRuns, userInput,
                   pageSettings, isLoading, limitVars>>

\* handleDifficultyChange(difficulty)
HandleDifficultyChange(d) ==
    /\ pageSettings' = [pageSettings EXCEPT !.difficulty = d]
    /\ settings' = setSetting(settings, "difficulty", StringValue(d))
    /\ lastSet' = [k \in DOMAIN lastSet \cup {"difficulty"} |->
                      IF k = "difficulty" THEN StringValue(d) ELSE lastSet[k]]
    /\ db' = getDB(db)
    /\ last' = [op |-> "handleDifficultyChange", difficulty |-> d]
    /\ UNCHANGED <<sessions, achievements, now, dst, issued, unlockedTimes,
                   everFast, seenToday, doneToday, completedOn, writers,
                   errorPatterns>>
    /\ UNCHANGED <<isFinished, runStats, language, level, snippet, tasks,
                   savedRuns, userInput, isLoading, seconds, limitVars>>

NextType ==
    \/ \E key \in Keys : HandleKeyDown(key)
    \/ TimerTick
    \/ \E d \in {"standard", "hardcore"} : HandleDifficultyChange(d)
    \/ Review
    \/ (tasks = <<>> /\ Reset)
    \/ \E i \in 1..MaxTasks : SaveSessionReturns(i, {1})
    \/ \E i \in 1..MaxTasks : GetSnippetReturns(i)

SpecType == Init /\ [][NextType]_vars


\* WPM of n characters typed in the seconds elapsed: (n / 5) / minutes, rounded
WpmOf(n, elapsed) == MathRoundDiv(12 * n, elapsed)

\* C22: after every printable key press of a started run stats.wpm is
\* round((length of the typed input / 5) / minutes since the first key
\* press), and the session reset() saves carries the characters actually
\* typed and the WPM at the moment the run finished, by the last character
\* or by the countdown.
C22_WpmOfTheRun ==
    [][/\ (/\ last'.op = "handleKeyDown"
           /\ Printable(last'.key)
           /\ ~isFinished
           /\ runStats.startTime # Null
           /\ DateNow > runStats.startTime)
          => runStats'.wpm = WpmOf(Len(userInput'), DateNow - runStats.startTime)
       /\ (/\ Len(tasks') > Len(tasks)
           /\ tasks'[Len(tasks')].pc = "saveSession"
           /\ runStats.endTime > runStats.startTime)
          => /\ tasks'[Len(tasks')].session.charactersTyped = Len(userInput)
             /\ tasks'[Len(tasks')].session.wpm =
                   WpmOf(Len(userInput), runStats.endTime - runStats.startTime)]_vars


\* the typed input is a prefix of the snippet
CorrectPrefix ==
    /\ Len(userInput) <= Len(snippet)
    /\ \A i \in 1..Len(userInput) : userInput[i] = snippet[i]

\* C25: in hardcore mode a printable key other than the expected character
\* empties the typed input and adds 1 to errors; whenever the mode is
\* hardcore the typed input is a correct prefix of the snippet; and a run
\* finished by its last character in hardcore mode has accuracy 100, also
\* when the mode was switched during the run.
C25_HardcoreResetsOnError ==
    /\ [](pageSettings.difficulty = "hardcore" => CorrectPrefix)
    /\ [][/\ (/\ last'.op = "handleKeyDown"
              /\ Printable(last'.key)
              /\ ~isFinished
              /\ pageSettings.difficulty = "hardcore"
              /\ ~Expected(last'.key))
             => /\ userInput' = <<>>
                /\ runStats'.errors = runStats.errors + 1
          /\ (/\ last'.op = "handleKeyDown"
              /\ ~isFinished /\ isFinished'
              /\ pageSettings.difficulty = "hardcore")
             => runStats'.accuracy = 100]_vars

\* C26: for a non-empty input calculateStats returns accuracy round(100 * c / n)
\* and errors n - c, with n the length of the input and c the number of
\* positions where it equals the snippet; the accuracy lies within 0..100
\* and is 0 for an input without a correct character.
C26_AccuracyOfTheInput ==
    [][(/\ last'.op = "handleKeyDown"
        /\ ~isFinished
        /\ runStats.startTime # Null
        /\ userInput' = Append(userInput, last'.key))
       => LET n == Len(userInput')
              c == Cardinality(CorrectChars(userInput', snippet))
          IN  /\ runStats'.accuracy = MathRoundDiv(100 * c, n)
              /\ runStats'.errors = n - c
              /\ runStats'.accuracy \in 0..100
              /\ (c = 0 => runStats'.accuracy = 0)]_vars

\* C29: timeLeft stays within 0..60 and changes only by a tick, which takes
\* 1 from it while the run is started and not finished, or by a new snippet
\* being loaded, which restores it, clears the start time and empties the
\* input; whenever timeLeft is 0 the run is finished; and while the run is
\* finished a key press changes neither the typed input nor the stats.
C29_CountdownBoundsTheRun ==
    /\ [](runStats.timeLeft \in 0..TIME_LIMIT)
    /\ [](runStats.timeLeft = 0 => isFinished)
    /\ [][/\ runStats'.timeLeft # runStats.timeLeft
             => \/ /\ runStats'.timeLeft = runStats.timeLeft - 1
                   /\ runStats.startTime # Null
                   /\ ~isFinished
                \/ /\ last'.op = "fetchSnippet"
                   /\ runStats' = NewStats
                   /\ userInput' = <<>>
          /\ (isFinished /\ last'.op = "handleKeyDown")
             => UNCHANGED <<userInput, runStats>>]_vars

---------------------------------------------------------------------------
(* The streak scan and its gaps *)

\* the days among the first g scanned that have a session
DaysBefore(g) == {j \in 0..(g - 1) : InWindow(j)}

---------------------------------------------------------------------------
(* Earning each achievement of the catalogue *)

\* the ids of getAvailableLanguages
AvailableLanguages ==
    <<"warmup", "javascript", "typescript", "python", "rust", "go", "cpp", "c",
      "random">>

\* the hardcore sessions hardcore_master asks for in the model (the
\* description asks for 10)
HardcoreSessionsScaled == 2

\* a session of a run made in hardcore mode
HardcoreSession(id, date) == [Session(id, date, 99, 99) EXCEPT !.difficulty = "hardcore"]

\* arguments of checkAndUnlockAchievements: a first session, fast and exact;
\* and a hardcore session after 100 sessions, 30 days in a row and every
\* language
EarnArguments ==
    {<<Session(1, 0, 100, 100), StatsInput(1, 0)>>,
     <<HardcoreSession(1, 0),
       [StatsInput(100, 30) EXCEPT !.languages = AvailableLanguages]>>}

NextEarn ==
    \/ \E a \in EarnArguments : CheckAndUnlockAchievements(a[1], a[2])
    \/ SaveSession([SessionInput(now, 99, 99) EXCEPT !.difficulty = "hardcore"],
                   1..HardcoreSessionsScaled)
    \/ \E t \in {7, 8, 22, 31} : Tick(t)

SpecEarn == Init /\ [][NextEarn]_vars

\* the keys whose description in ACHIEVEMENTS holds at a call
Described(session, stats, hour) ==
    RuleHolds(session, stats, hour)
    \cup (IF Range(AvailableLanguages) \subseteq Range(stats.languages)
          THEN {"polyglot"} ELSE {})
    \cup (IF Cardinality({s \in Range(sessions) : s.difficulty = "hardcore"})
                >= HardcoreSessionsScaled
          THEN {"hardcore_master"} ELSE {})

\* C24: every key of ACHIEVEMENTS is earned as its description states: after
\* a checkAndUnlockAchievements call at which the description of a key
\* holds, the key is unlocked; polyglot once all available languages have
\* been practised, hardcore_master once 10 hardcore sessions are complete.
C24_EveryAchievementEarned ==
    last.op = "checkAndUnlockAchievements" =>
        \A key \in Described(last.session, last.stats, last.hour) :
            key \in DOMAIN achievements

---------------------------------------------------------------------------
(* Saving today's session into a store at or below the retention cap *)

InitSaveStreak ==
    /\ sessions \in {StoreOfDates(D) :
                       D \in {E \in SUBSET StreakDates : Cardinality(E) <= MAX_SESSIONS}}
    /\ now \in {DayHours * LastDay, DayHours * LastDay + 12}
    /\ dst \in {[kind |-> k, day |-> LastDay - 1] : k \in {"none", "spring", "fall"}}
    /\ settings = EmptyStore
    /\ achievements = EmptyStore
    /\ issued = DOMAIN sessions
    /\ unlockedTimes = [k \in AchievementKeys |-> 0]
    /\ everFast = FALSE
    /\ seenToday = NoCall
    /\ doneToday = <<>>
    /\ completedOn = <<>>
    /\ writers = {}
    /\ last = NoCall
    /\ errorPatterns = EmptyStore
    /\ db = NoDatabase
    /\ lastSet = EmptyStore
    /\ isFinished = FALSE
    /\ runStats = NewStats
    /\ language = "warmup"
    /\ level = "easy"
    /\ snippet = LoadedSnippet("warmup", "easy")
    /\ tasks = <<>>
    /\ savedRuns = 0
    /\ userInput = <<>>
    /\ pageSettings = NewSettings
    /\ isLoading = FALSE
    /\ seconds = 0
    /\ lastApiCall = LongAgo
    /\ lastGistsCall = LongAgo
    /\ waiting = <<>>
    /\ started = <<>>

NextSaveStreak ==
    \/ SaveSessionToHistory(60, 100, 1..(MAX_SESSIONS + 1))
    \/ GetStats

SpecSaveStreak == InitSaveStreak /\ [][NextSaveStreak]_vars

\* C27: a saveSession whose date is the current time never lowers
\* getStats().currentStreak, and raises it by exactly 1 when today had no
\* session before the call, the eviction at the cap included.
C27_SavingKeepsStreak ==
    [][(last'.op = "saveSession" /\ last'.ret.date = now /\ sessions' # sessions)
       => /\ getStats(sessions', now).currentStreak
                >= getStats(sessions, now).currentStreak
          /\ ~HasSession(sessions, now, 0)
                => getStats(sessions', now).currentStreak
                      = getStats(sessions, now).currentStreak + 1]_vars

---------------------------------------------------------------------------
(* The streak achievements over a growing streak *)

\* streaks just below and at the thresholds of week_streak and month_streak
StreakArguments ==
    {<<Session(1, 0, 99, 99), StatsInput(2, k)>> : k \in {6, 7, 29, 30}}

NextStreakOrder ==
    \/ \E a \in StreakArguments : CheckAndUnlockAchievements(a[1], a[2])
    \/ \E t \in {6, 9, 23, 33, 47, 57} : Tick(t)

SpecStreakOrder == Init /\ [][NextStreakOrder]_vars

\* C28: after any sequence of checkAndUnlockAchievements calls that began
\* with no achievements, month_streak unlocked implies week_streak unlocked,
\* and week_streak was not unlocked later than month_streak.
C28_WeekBeforeMonth ==
    "month_streak" \in DOMAIN achievements =>
        /\ "week_streak" \in DOMAIN achievements
        /\ achievements["week_streak"].unlockedAt
              <= achievements["month_streak"].unlockedAt

\* week_streak was unlocked by a call with a streak of 7 and month_streak by
\* a later call
C28_Witness ==
    /\ last.op = "checkAndUnlockAchievements"
    /\ last.stats.currentStreak = 30
    /\ "month_streak" \in DOMAIN achievements
    /\ "week_streak" \in DOMAIN achievements
    /\ achievements["week_streak"].unlockedAt < achievements["month_streak"].unlockedAt
    /\ achievements["month_streak"].unlockedAt = now

---------------------------------------------------------------------------
(* Snippet loads that overlap *)

NextLoad ==
    \/ \E lang \in Languages : SetLanguage(lang)
    \/ Reset
    \/ \E i \in 1..MaxTasks : SaveSessionReturns(i, {1})
    \/ \E i \in 1..MaxTasks : GetSnippetReturns(i)
    \/ \E key \in Keys : HandleKeyDown(key)

SpecLoad == Init /\ [][NextLoad]_vars

\* C30: once every pending fetchSnippet has completed, the snippet shown is
\* the one fetched for the language and level now selected, isLoading is
\* false, and the typed input and the stats are those of a fresh run,
\* whatever the order the overlapping fetches completed in.
C30_LatestLoadWins ==
    (last.op = "fetchSnippet" /\ tasks = <<>>) =>
        /\ snippet = LoadedSnippet(language, level)
        /\ ~isLoading
        /\ userInput = <<>>
        /\ runStats = NewStats

============================================================================
